---- MODULE Spec2Model ----
(***************************************************************************)
(* Model of the Go package "bind" (DevNewbie1826/bind): Action decodes a   *)
(* request into a target value and then walks the value with the          *)
(* recursive function binder, calling Bind bottom-up on every member the  *)
(* reflection tests select.                                               *)
(*                                                                         *)
(* A Go string that is a field path ("Middle.Inner") is modelled as the   *)
(* sequence of its dot-separated segments (<<"Middle", "Inner">>); the    *)
(* empty string is <<>>.  Go identifiers contain no dot, so the join is   *)
(* injective and parentField + "." + fieldName is Append.                 *)
(***************************************************************************)
EXTENDS Naturals, Sequences, FiniteSets

VARIABLES
    decoders,     \* the package variable decoders: ContentType -> decode function
    decodeFn,     \* the package variable decodeFn: the active decode entrypoint
    req,          \* the *http.Request handed to Action: [header] its Content-Type header
    target,       \* the value v handed to Action and everything reachable from it: [root, heap]
    binderCache,  \* the package variable binderCache: struct type -> []int
    phase,        \* position of the one Action call: "idle", "binding", "done"
    stack,        \* the active binder calls, outermost first
    ret,          \* the error value a binder call has just returned to its caller
    result,       \* what Action returned
    decoded,      \* history: what the decode entrypoint returned
    visits,       \* history: the binder calls entered so far, in order
    calls,        \* history: the Bind invocations made so far, in order
    decoderMu,    \* the package variable decoderMu, a sync.RWMutex: [w, r]
    decodeMu,     \* the package variable decodeMu, a sync.RWMutex: [w, r]
    MaxMultipartMemory,  \* the package variable MaxMultipartMemory
    gor,          \* the goroutines calling into the package: their position and locals
    settled,      \* history: what the setters that have returned last put in place
    stores,       \* history: the binderCache.Store calls made so far, per type
    resolved,     \* history: what GetContentType returned for req's header ("" before)
    body,         \* r.Body, the stream of the request body: [len, pos]
    form,         \* r.MultipartForm: [parsed, File], parsed FALSE for nil
    dest,         \* the destination v handed to a decoder: [ptr, type, fields]
    dcall,        \* the one decoder call followed step by step: its position and locals
    conv          \* the error handed to the error converters and what they returned

\* the state of the one Action call followed through binder
seq == <<req, target, phase, stack, ret, result, decoded, visits, calls>>

\* the locks, the threshold and the goroutines of the concurrent specifications
conc == <<decoderMu, decodeMu, MaxMultipartMemory, gor, settled, stores, resolved>>

\* the state of the decoder call and of the error converters, followed in
\* specifications of their own
aside == <<body, form, dest, dcall, conv>>

vars == <<decoders, decodeFn, binderCache, seq, conc, aside>>

(***************************************************************************)
(* Bounds of the model.                                                    *)
(***************************************************************************)
\* The ceiling of the depth check.  The source sets it to 1000; the walk is
\* explored with a scaled ceiling, every comparison and message using this name.
maxRecursionDepth == 3

\* How many nodes longer than the ceiling a DeepBinder chain may be.
MaxOver == 2

(***************************************************************************)
(* Types of the host program.  The engine sees them only through reflect: *)
(* a kind, the receiver on which Bind is declared ("ptr", "value" or      *)
(* "none"), and for a struct its fields in declaration order.  A field's  *)
(* declared type is *T ("ptr"), T ("named"), the interface Binder         *)
(* ("iface"), or a type without Bind such as string ("plain").            *)
(***************************************************************************)
Fld(n, k, e) == [name |-> n, k |-> k, elem |-> e]

\* An embedded field: reflect gives it the name of its type (StructField.Name), the
\* name under which its members are promoted.
Embedded(k, e) == Fld(e, k, e)

TypeInfo ==
    [ DeepBinder   |-> [kind |-> "struct", recv |-> "ptr",
                        fields |-> << Fld("Child", "ptr", "DeepBinder") >>],
      OuterBinder  |-> [kind |-> "struct", recv |-> "ptr",
                        fields |-> << Fld("Middle", "ptr", "MiddleBinder") >>],
      MiddleBinder |-> [kind |-> "struct", recv |-> "ptr",
                        fields |-> << Fld("Inner", "ptr", "InnerBinder") >>],
      InnerBinder  |-> [kind |-> "struct", recv |-> "ptr", fields |-> << >>],
      TestPayload  |-> [kind |-> "struct", recv |-> "ptr",
                        fields |-> << Fld("Name", "plain", ""), Fld("Value", "plain", "") >>],
      Branch       |-> [kind |-> "struct", recv |-> "ptr",
                        fields |-> << Fld("Next", "ptr", "Branch"),
                                      Fld("Leaf", "ptr", "InnerBinder") >>],
      ValueBinder  |-> [kind |-> "struct", recv |-> "value", fields |-> << >>],
      StatusCode   |-> [kind |-> "int", recv |-> "value", fields |-> << >>],
      Form         |-> [kind |-> "struct", recv |-> "ptr",
                        fields |-> << Fld("Title", "plain", ""),
                                      Fld("First", "ptr", "MiddleBinder"),
                                      Fld("Any", "iface", ""),
                                      Fld("Val", "named", "ValueBinder"),
                                      Fld("TestPayload", "named", "TestPayload"),
                                      Fld("Code", "named", "StatusCode"),
                                      Fld("Last", "ptr", "TestPayload") >>],
      EmbeddedPayload |-> [kind |-> "struct", recv |-> "ptr",
                           fields |-> << Embedded("named", "TestPayload"),
                                         Fld("Extra", "plain", "") >>],
      Envelope     |-> [kind |-> "struct", recv |-> "ptr",
                        fields |-> << Fld("Title", "plain", ""),
                                      Embedded("named", "ValueBinder"),
                                      Embedded("ptr", "MiddleBinder"),
                                      Embedded("named", "TestPayload"),
                                      Fld("Note", "plain", ""),
                                      Embedded("ptr", "InnerBinder") >>] ]

TypeNames == DOMAIN TypeInfo

(***************************************************************************)
(* Values.  to = 0 is nil.  A "ptr" value points at heap object to; a     *)
(* "val" value is the addressable storage to itself (a struct or scalar   *)
(* held in place, or the result of Elem()); an "iface" value is an        *)
(* interface holding a pointer to object to (or nothing).                 *)
(***************************************************************************)
NilPtr   == [k |-> "ptr", to |-> 0]
Ptr(o)   == [k |-> "ptr", to |-> o]
Val(o)   == [k |-> "val", to |-> o]
Iface(o) == [k |-> "iface", to |-> o]
Plain    == [k |-> "plain", to |-> 0]

Obj(t, fs) == [type |-> t, fields |-> fs]

(***************************************************************************)
(* Errors.                                                                 *)
(***************************************************************************)
NilErr         == [t |-> "nil"]
ErrorString(m) == [t |-> "errorString", msg |-> m]
\* type BindError struct { Field string; Err error }
BindError(f, e) == [t |-> "BindError", Field |-> f, Err |-> e]
\* func (e BindError) Unwrap() error
Unwrap(e) == IF e.t = "BindError" THEN e.Err ELSE NilErr

\* errors.As(err, &bindErr) for a target of type BindError: the first error of
\* err's Unwrap chain that is a BindError, if any.
RECURSIVE ErrorsAs(_)
ErrorsAs(err) ==
    IF err.t = "BindError" THEN TRUE
    ELSE IF err.t = "wrapError" THEN ErrorsAs(err.Err)
    ELSE FALSE

(***************************************************************************)
(* Error messages are sequences of tokens: literal text, a formatted      *)
(* number (%d), or a formatted field path (%s).                           *)
(***************************************************************************)
Lit(s)  == [lit |-> s, num |-> 0, path |-> << >>]
Num(n)  == [lit |-> "%d", num |-> n, path |-> << >>]
Path(p) == [lit |-> "%s", num |-> 0, path |-> p]

\* fmt.Errorf("max recursion depth (%d) exceeded", maxRecursionDepth)
RecursionMsg == << Lit("max recursion depth ("), Num(maxRecursionDepth), Lit(") exceeded") >>
RecursionErr == ErrorString(RecursionMsg)

RECURSIVE ErrorText(_)

\* the field form used whether Field is empty or not
ErrorTextFieldAlways(e) ==
    IF e.t = "BindError"
    THEN << Lit("bind failed on field '"), Path(e.Field), Lit("': ") >> \o ErrorText(e.Err)
    ELSE e.msg

\* func (e BindError) Error() string, and Error() of the other error types
ErrorText(e) ==
    IF e.t = "BindError"
    THEN IF e.Field # << >>
         THEN << Lit("bind failed on field '"), Path(e.Field), Lit("': ") >> \o ErrorText(e.Err)
         ELSE << Lit("bind failed: ") >> \o ErrorText(e.Err)
    ELSE e.msg

\* strings.Contains(text, part) on token sequences
Contains(text, part) ==
    \E i \in 0..(Len(text) - Len(part)) : SubSeq(text, i + 1, i + Len(part)) = part

(***************************************************************************)
(* The errors a Bind method of the host program may return: a plain       *)
(* error, or an error that is itself a BindError value.                   *)
(***************************************************************************)
UserErrs ==
    { ErrorString(<< Lit("inner error") >>),
      BindError(<< "Own" >>, ErrorString(<< Lit("city is a required field") >>)) }

BindOutcomes == {NilErr} \cup UserErrs

(***************************************************************************)
(* Content types.  A header value is a sequence of tokens: the separator  *)
(* ";", the white space " " and "\t", and words, the maximal runs of      *)
(* other characters (no two words are adjacent).  A media type of the     *)
(* table contains neither ";" nor white space, so it is one word.         *)
(***************************************************************************)
ContentTypes ==
    { "ContentTypeUnknown", "ContentTypePlainText", "ContentTypeHTML", "ContentTypeJSON",
      "ContentTypeXML", "ContentTypeForm", "ContentTypeMultipart", "ContentTypeEventStream" }

Semicolon  == ";"
WhiteSpace == { " ", "\t" }

\* the header taken whole, its parameters included
SplitNone(s) == s

\* strings.Split(s, ";")[0]: what precedes the first ";", all of s without one
SplitFirst(s) ==
    IF \E i \in 1..Len(s) : s[i] = Semicolon
    THEN SubSeq(s, 1, (CHOOSE i \in 1..Len(s) :
                          s[i] = Semicolon /\ \A j \in 1..(i - 1) : s[j] # Semicolon) - 1)
    ELSE s

\* only the leading white space removed
TrimLeft(s) ==
    LET solid == { i \in 1..Len(s) : s[i] \notin WhiteSpace }
    IN  IF solid = {} THEN << >>
        ELSE SubSeq(s, CHOOSE i \in solid : \A j \in solid : i <= j, Len(s))

\* strings.TrimSpace(s): s without its leading and trailing white space
TrimSpace(s) ==
    LET solid == { i \in 1..Len(s) : s[i] \notin WhiteSpace }
    IN  IF solid = {} THEN << >>
        ELSE SubSeq(s, CHOOSE i \in solid : \A j \in solid : i <= j,
                       CHOOSE i \in solid : \A j \in solid : j <= i)

\* the switch of lines 44-61, on what is left of the header: it equals a string
\* of the table only if it is that one word
Switch(m) ==
    IF Len(m) # 1 THEN "ContentTypeUnknown"
    ELSE CASE m[1] = "text/plain" -> "ContentTypePlainText"
           [] m[1] \in {"text/html", "application/xhtml+xml"} -> "ContentTypeHTML"
           [] m[1] \in {"application/json", "text/javascript", "application/problem+json",
                        "application/vnd.api+json"} -> "ContentTypeJSON"
           [] m[1] \in {"text/xml", "application/xml"} -> "ContentTypeXML"
           [] m[1] = "application/x-www-form-urlencoded" -> "ContentTypeForm"
           [] m[1] = "multipart/form-data" -> "ContentTypeMultipart"
           [] m[1] = "text/event-stream" -> "ContentTypeEventStream"
           [] OTHER -> "ContentTypeUnknown"

\* func GetContentType(s string) ContentType
GetContentType(s) == Switch(TrimSpace(SplitFirst(s)))

\* The Content-Type headers of the requests handed to Action.
RequestHeaders ==
    { << "application/json" >>,
      << "application/json", ";", " ", "charset=utf-8" >>,
      << "application/xml" >>,
      << "application/x-www-form-urlencoded" >>,
      << "multipart/form-data", ";", " ", "boundary=x" >>,
      << "text/plain" >>,
      << "text/html" >>,
      << "text/event-stream" >>,
      << "application/yaml" >>,
      << >> }

(***************************************************************************)
(* The decode stage.                                                       *)
(***************************************************************************)
\* var decoders = map[ContentType]func(*http.Request, any) error{...}
BuiltinDecoders ==
    [ ContentTypeJSON      |-> "decodeJSONRequest",
      ContentTypeXML       |-> "decodeXMLRequest",
      ContentTypeForm      |-> "decodeFormRequest",
      ContentTypeMultipart |-> "decodeMultipartFormRequest" ]

\* What a decode function can return: success, or the codec's own error for a
\* body it cannot decode (the codecs are external; their error is opaque).
RunDecoder(fn) == { NilErr, ErrorString(<< Lit(fn), Lit(": malformed body") >>) }

UnsupportedErr == ErrorString(<< Lit("bind: unsupported content type") >>)

\* func DefaultDecoder(r *http.Request, v any) error
DefaultDecoder(r) ==
    LET ct == GetContentType(r.header)
    IN  IF ct \in DOMAIN decoders THEN RunDecoder(decoders[ct]) ELSE { UnsupportedErr }

\* getDecode()(r, v)
ActiveDecode(r) ==
    IF decodeFn = "DefaultDecoder" THEN DefaultDecoder(r) ELSE RunDecoder(decodeFn)

(***************************************************************************)
(* reflect, as far as binder uses it.                                     *)
(***************************************************************************)
Heap == target.heap

\* rv.Kind()
Kind(rv) ==
    CASE rv.k = "ptr"   -> "ptr"
      [] rv.k = "iface" -> "interface"
      [] rv.k = "val"   -> TypeInfo[Heap[rv.to].type].kind
      [] OTHER          -> "string"

\* rv.Elem() of a non-nil pointer: the addressable value it points at
Elem(rv) == Val(rv.to)

\* rt.Field(i).Type.Implements(binderType): the method set of the declared type.
\* *T has the methods of both receivers, T only those of the value receiver, the
\* interface type Binder has Bind, a plain type has none.
TypeImplements(f) ==
    CASE f.k = "ptr"   -> TypeInfo[f.elem].recv # "none"
      [] f.k = "named" -> TypeInfo[f.elem].recv = "value"
      [] f.k = "iface" -> TRUE
      [] OTHER         -> FALSE

\* rv.Addr().Type().Implements(binderType): the method set of the pointer to rv's
\* type.  A pointer to an interface type has no methods.
AddrImplements(rv) ==
    /\ rv.k = "val"
    /\ TypeInfo[Heap[rv.to].type].recv # "none"

\* a scan that passes over the embedded fields
ScanFieldsDeclared(rt) ==
    LET fs == TypeInfo[rt].fields
    IN  SelectSeq([i \in 1..Len(fs) |-> i],
                  LAMBDA i : TypeImplements(fs[i]) /\ fs[i].name # fs[i].elem)

\* a scan that looks at the values: a field holding nil is passed over
ScanFieldsNonNil(rt) ==
    LET fs == TypeInfo[rt].fields
    IN  SelectSeq([i \in 1..Len(fs) |-> i],
                  LAMBDA i : /\ TypeImplements(fs[i])
                             /\ \E o \in 1..Len(Heap) :
                                    /\ Heap[o].type = rt
                                    /\ Heap[o].fields[i].to # 0)

\* The scan of lines 347-352: the indices, in increasing order, of the fields whose
\* declared type implements Binder.
ScanFields(rt) ==
    LET fs == TypeInfo[rt].fields
    IN  SelectSeq([i \in 1..Len(fs) |-> i], LAMBDA i : TypeImplements(fs[i]))

\* fullPath without the prefix of the enclosing value
FullPathNoParent(parentField, fieldName) == << fieldName >>

\* fullPath of lines 360-363
FullPath(parentField, fieldName) ==
    IF parentField # << >> THEN Append(parentField, fieldName) ELSE << fieldName >>

(***************************************************************************)
(* The values Action is called on.  heap maps an object's address to its  *)
(* type and its field values in declaration order; root is v.             *)
(***************************************************************************)
\* A chain of k DeepBinder values (root at depth 0) whose last Child is tail.
Chain(k, tail) ==
    [ root |-> Ptr(1),
      heap |-> [o \in 1..k |-> Obj("DeepBinder", << IF o < k THEN Ptr(o + 1) ELSE tail >>)] ]

MaxChain == maxRecursionDepth + MaxOver

\* Chains ending in nil, and genuinely cyclic ones (the last Child pointing at the
\* root or at the last node itself).
ChainTargets ==
    { Chain(k, tail) : k \in 1..MaxChain, tail \in {NilPtr} } \cup
    { Chain(k, Ptr(1)) : k \in 1..2 } \cup { Chain(k, Ptr(k)) : k \in 2..2 }

\* A chain of k Branch values whose last one holds an InnerBinder as Leaf: the
\* InnerBinder is at depth k, the deepest position that can still be bound when
\* k is the ceiling.
BranchChain(k) ==
    [ root |-> Ptr(1),
      heap |-> [o \in 1..(k + 1) |->
                  IF o <= k
                  THEN Obj("Branch", << IF o < k THEN Ptr(o + 1) ELSE NilPtr,
                                        IF o < k THEN NilPtr ELSE Ptr(k + 1) >>)
                  ELSE Obj("InnerBinder", << >>)] ]

BranchTargets == { BranchChain(k) : k \in 1..maxRecursionDepth }

\* &OuterBinder{Middle: m}, with a MiddleBinder{Inner: i} at 2 and an InnerBinder at 3
OuterTarget(m, i) ==
    [ root |-> Ptr(1),
      heap |-> << Obj("OuterBinder", << m >>),
                  Obj("MiddleBinder", << i >>),
                  Obj("InnerBinder", << >>) >> ]

OuterTargets == { OuterTarget(m, i) : m \in {NilPtr, Ptr(2)}, i \in {NilPtr, Ptr(3)} }

\* &Form{...}: every kind of member next to each other.
FormTarget(first, inner, any, last) ==
    [ root |-> Ptr(1),
      heap |-> << Obj("Form", << Plain, first, any, Val(5), Val(6), Val(7), last >>),
                  Obj("MiddleBinder", << inner >>),
                  Obj("InnerBinder", << >>),
                  Obj("TestPayload", << Plain, Plain >>),
                  Obj("ValueBinder", << >>),
                  Obj("TestPayload", << Plain, Plain >>),
                  Obj("StatusCode", << >>),
                  Obj("TestPayload", << Plain, Plain >>) >> ]

FormTargets ==
    { FormTarget(first, inner, any, last) :
        first \in {NilPtr, Ptr(2)}, inner \in {NilPtr, Ptr(3)},
        any \in {Iface(0), Iface(8)}, last \in {NilPtr, Ptr(4)} }

\* &EmbeddedPayload{}: the TestPayload it embeds is held by value
EmbeddedTarget ==
    [ root |-> Ptr(1),
      heap |-> << Obj("EmbeddedPayload", << Val(2), Plain >>),
                  Obj("TestPayload", << Plain, Plain >>) >> ]

\* &Envelope{...}: embedded members only, by value and by pointer
EnvelopeTarget(middle, inner, last) ==
    [ root |-> Ptr(1),
      heap |-> << Obj("Envelope", << Plain, Val(2), middle, Val(5), Plain, last >>),
                  Obj("ValueBinder", << >>),
                  Obj("MiddleBinder", << inner >>),
                  Obj("InnerBinder", << >>),
                  Obj("TestPayload", << Plain, Plain >>),
                  Obj("InnerBinder", << >>) >> ]

EnvelopeTargets ==
    { EnvelopeTarget(middle, inner, last) :
        middle \in {NilPtr, Ptr(3)}, inner \in {NilPtr, Ptr(4)}, last \in {NilPtr, Ptr(6)} }

\* a nil *TestPayload passed as v
NilTarget == [ root |-> NilPtr, heap |-> << >> ]

\* &TestPayload{}: a root without any member that implements Binder
LeafTarget == [ root |-> Ptr(1), heap |-> << Obj("TestPayload", << Plain, Plain >>) >> ]

Targets ==
    ChainTargets \cup BranchTargets \cup OuterTargets \cup FormTargets \cup EnvelopeTargets
        \cup {NilTarget, LeafTarget, EmbeddedTarget}

(***************************************************************************)
(* The call stack of binder.  A frame holds the parameters and locals of  *)
(* one call: rv, parentField, depth, binderFields, the position n of the  *)
(* range loop, and pc, the point the call has reached.                    *)
(***************************************************************************)
Frame(rv, parentField, depth) ==
    [ rv |-> rv, parentField |-> parentField, depth |-> depth,
      pc |-> "enter", binderFields |-> << >>, n |-> 1 ]

Pending == [t |-> "pending"]

Top == stack[Len(stack)]

SetTop(f) == [stack EXCEPT ![Len(stack)] = f]

\* return e from the innermost binder call: to the calling binder frame, or, from
\* the outermost call, as the result of Action (line 306)
Return(e) ==
    IF Len(stack) = 1
    THEN /\ stack' = << >>
         /\ ret' = Pending
         /\ result' = e
         /\ phase' = "done"
    ELSE /\ stack' = SubSeq(stack, 1, Len(stack) - 1)
         /\ ret' = e
         /\ UNCHANGED <<result, phase>>

\* The member names selected by the range loops of the calling frames, outermost
\* first: the way from v to the value of the innermost call.
MemberChain ==
    [ j \in 1..(Len(stack) - 1) |->
        TypeInfo[Heap[stack[j].rv.to].type].fields[stack[j].binderFields[stack[j].n]].name ]

\* rv.Addr().Interface().(Binder).Bind(r) returning e, recorded in the history
Bind(rv, e) == calls' = Append(calls, [obj |-> rv.to, via |-> MemberChain, res |-> e])

(***************************************************************************)
(* Goroutines and locks.  Calls into the package come from the goroutines *)
(* of the host program.  A sync.RWMutex is [w, r]: the goroutine holding  *)
(* it exclusively (0 for none) and the set of goroutines holding it       *)
(* shared.  A call blocked in Lock or RLock has not taken its step yet.   *)
(***************************************************************************)
NumGoroutines == 2

Goroutines == 1..NumGoroutines

Unlocked == [w |-> 0, r |-> {}]

\* Lock returning while readers still hold mu
CanLockOverReaders(mu) == mu.w = 0

\* mu.Lock() can return: nobody holds mu
CanLock(mu) == mu.w = 0 /\ mu.r = {}

\* mu.RLock() can return: nobody holds mu exclusively
CanRLock(mu) == mu.w = 0

Lock(mu, p)    == [mu EXCEPT !.w = p]
Unlock(mu, p)  == [mu EXCEPT !.w = 0]
RLock(mu, p)   == [mu EXCEPT !.r = @ \cup {p}]
RUnlock(mu, p) == [mu EXCEPT !.r = @ \ {p}]

\* MaxMultipartMemory int64 = 32 << 20
MaxMultipartMemoryInit == 32 * (2 ^ 20)

\* A goroutine outside the package; the locals of the call it is in otherwise:
\* the arguments (ct, fn, hdr, size), what it has read (fn, ok, entry, mem), the
\* function it invoked and what that returned (invoked, err), and in binder rt and
\* binderFields.
IdleG ==
    [ pc |-> "idle", ct |-> "", fn |-> "", ok |-> FALSE, hdr |-> << >>, size |-> 0,
      entry |-> "", invoked |-> "", mem |-> 0, err |-> [t |-> "pending"],
      rt |-> "", binderFields |-> << >>, panicked |-> FALSE,
      cb |-> "", cbct |-> "", cbfn |-> "", cbok |-> FALSE ]

\* the decoders map read at key ct: dec, ok := decoders[ct]
Lookup(m, ct) ==
    IF ct \in DOMAIN m THEN [fn |-> m[ct], ok |-> TRUE] ELSE [fn |-> "", ok |-> FALSE]

\* the package as loaded, no goroutine in it
ConcInit ==
    /\ decoderMu = Unlocked
    /\ decodeMu = Unlocked
    /\ MaxMultipartMemory = MaxMultipartMemoryInit
    /\ gor = [p \in Goroutines |-> IdleG]
    /\ settled = [ decoders |-> BuiltinDecoders, decodeFn |-> "DefaultDecoder",
                   mem |-> MaxMultipartMemoryInit ]
    /\ stores = << >>
    /\ resolved = ""

(***************************************************************************)
(* What the built-in decoders work on: the body stream of the request,    *)
(* the multipart form parsed from it, and the destination v as bindFiles  *)
(* sees it through reflect.  An uploaded file is a *multipart.FileHeader, *)
(* told from the others by the form field it came under and its position. *)
(***************************************************************************)
\* the longest body, in reads, and the most files uploaded under one name
MaxBody  == 2
MaxFiles == 2

\* line 100 and line 101: the two types a member must have to receive files
fileHeaderPtrType   == "*multipart.FileHeader"
fileHeaderSliceType == "[]*multipart.FileHeader"

FileHeader(field, n) == [field |-> field, n |-> n]
NoFile  == FileHeader("", 0)
OldFile == FileHeader("earlier", 1)

\* the values of a member: a *multipart.FileHeader (NoFile for nil), a slice of
\* them, a string, a pointer of another type
FilePtr(f)    == [k |-> "ptr", file |-> f]
FileSlice(fs) == [k |-> "slice", files |-> fs]
Str(t)        == [k |-> "string", s |-> t]
OtherPtr      == [k |-> "other"]

\* a struct field as bindFiles reads it: Tag.Get("form"), Type, and whether the
\* field of an addressable struct can be set, which is whether it is exported
FileFld(n, tag, ty, exported) == [name |-> n, tag |-> tag, type |-> ty, exported |-> exported]

DestTypes ==
    [ FileUploadPayload |->
          [kind |-> "struct",
           fields |-> << FileFld("Name", "name", "string", TRUE),
                         FileFld("File", "file", fileHeaderPtrType, TRUE),
                         FileFld("Files", "files", fileHeaderSliceType, TRUE) >>],
      UnexportedFieldPayload |->
          [kind |-> "struct",
           fields |-> << FileFld("unexportedBinder", "unexported", "*TestPayload", FALSE),
                         FileFld("Exported", "exported", "string", TRUE) >>],
      Upload |->
          [kind |-> "struct",
           fields |-> << FileFld("Title", "", "string", TRUE),
                         FileFld("Avatar", "file", fileHeaderPtrType, TRUE),
                         FileFld("Spare", "", fileHeaderPtrType, TRUE),
                         FileFld("hidden", "file", fileHeaderPtrType, FALSE),
                         FileFld("Label", "files", "string", TRUE),
                         FileFld("All", "file", fileHeaderSliceType, TRUE),
                         FileFld("First", "files", fileHeaderPtrType, TRUE) >>],
      ValueBinder |-> [kind |-> "struct", fields |-> << >>],
      StatusCode  |-> [kind |-> "int", fields |-> << >>] ]

\* the value a member of type ty holds before the decode: the zero value, or for
\* the file types a value left by an earlier use of v
Prior(ty, stale) ==
    CASE ty = fileHeaderPtrType   -> FilePtr(IF stale THEN OldFile ELSE NoFile)
      [] ty = fileHeaderSliceType -> FileSlice(IF stale THEN << OldFile >> ELSE << >>)
      [] ty = "string"            -> Str("")
      [] OTHER                    -> OtherPtr

\* v = &T{...}, v = T{...} passed by value, v = (*T)(nil)
PtrDest(ty, stale) ==
    [ ptr |-> TRUE, nil |-> FALSE, type |-> ty,
      fields |-> [i \in 1..Len(DestTypes[ty].fields) |-> Prior(DestTypes[ty].fields[i].type, stale)] ]
ValDest(ty) == [ptr |-> FALSE, nil |-> FALSE, type |-> ty, fields |-> << >>]
NilDest(ty) == [ptr |-> TRUE, nil |-> TRUE, type |-> ty, fields |-> << >>]

Dests ==
    { PtrDest(ty, stale) : ty \in {"FileUploadPayload", "UnexportedFieldPayload", "Upload"},
                           stale \in BOOLEAN }
        \cup { PtrDest("StatusCode", FALSE), ValDest("ValueBinder"), ValDest("StatusCode"),
               NilDest("Upload") }

\* r.MultipartForm.File as ParseMultipartForm builds it: under each form field name,
\* the files uploaded under it in upload order
UploadNames == { "file", "files" }

FilesOf(name, n) == [i \in 1..n |-> FileHeader(name, i)]

Uploads ==
    { [name \in DOMAIN c |-> FilesOf(name, c[name])] :
        c \in UNION { [D -> 0..MaxFiles] : D \in SUBSET UploadNames } }

NoForm == [parsed |-> FALSE, File |-> << >>]

\* no decoder called
IdleCall ==
    [ pc |-> "idle", fn |-> "", i |-> 0, err |-> [t |-> "pending"], ferr |-> [t |-> "pending"],
      before |-> << >>, readTo |-> 0, deferred |-> FALSE, stages |-> << >> ]

\* no converter called: which were called, and what each returned
NoConv == [src |-> [t |-> "nil"], called |-> {}, map |-> << >>, json |-> << >>]

\* no decoder call and no conversion followed
AsideIdle ==
    /\ body = [len |-> 0, pos |-> 0, File |-> << >>]
    /\ form = NoForm
    /\ dest = NilDest("Upload")
    /\ dcall = IdleCall
    /\ conv = NoConv

(***************************************************************************)
(* Init: the package as loaded, and one request about to be bound.        *)
(***************************************************************************)
Init ==
    /\ decoders = BuiltinDecoders
    /\ decodeFn = "DefaultDecoder"
    /\ req \in [header : RequestHeaders]
    /\ target \in Targets
    /\ binderCache = << >>
    /\ phase = "idle"
    /\ stack = << >>
    /\ ret = Pending
    /\ result = Pending
    /\ decoded = Pending
    /\ visits = << >>
    /\ calls = << >>
    /\ ConcInit
    /\ AsideIdle

(***************************************************************************)
(* func Action(r *http.Request, v Binder) error, lines 301-307: the       *)
(* decode, and on success the outermost call binder(r, ValueOf(v), "", 0).*)
(***************************************************************************)
\* the decode error handed back as it is
ActionNoWrap(err) == err

ActionWrap(err) == BindError(<< >>, err)

Action(err) ==
    /\ phase = "idle"
    /\ err \in ActiveDecode(req)
    /\ IF err # NilErr
       THEN /\ result' = ActionWrap(err)
            /\ phase' = "done"
            /\ UNCHANGED stack
       ELSE /\ stack' = << Frame(target.root, << >>, 0) >>
            /\ phase' = "binding"
            /\ UNCHANGED result
    /\ decoded' = err
    /\ UNCHANGED <<decoders, decodeFn, req, target, binderCache, ret, visits, calls>>
    /\ UNCHANGED <<conc, aside>>

(***************************************************************************)
(* binder, lines 320-335: the depth check, the nil check and Elem, the    *)
(* Implements check, and the test of the kind.                            *)
(***************************************************************************)
\* the check comparing one level late, and one level early
DepthExceededLate(depth) == depth > maxRecursionDepth + 1

DepthExceededEarly(depth) == depth >= maxRecursionDepth

DepthExceeded(depth) == depth > maxRecursionDepth

\* the nil check made before the depth check
EnterNilFirst ==
    /\ phase = "binding"
    /\ Top.pc = "enter"
    /\ LET f  == Top
           rv == IF Kind(f.rv) = "ptr" /\ f.rv.to # 0 THEN Elem(f.rv) ELSE f.rv
       IN  IF Kind(f.rv) = "ptr" /\ f.rv.to = 0
           THEN Return(NilErr)
           ELSE IF DepthExceeded(f.depth)
           THEN Return(RecursionErr)
           ELSE IF ~AddrImplements(rv)
           THEN Return(NilErr)
           ELSE /\ stack' = SetTop([f EXCEPT !.rv = rv,
                                             !.pc = IF Kind(rv) # "struct" THEN "scalar" ELSE "cache"])
                /\ UNCHANGED <<ret, result, phase>>
    /\ visits' = Append(visits, [via |-> MemberChain, depth |-> Top.depth, rv |-> Top.rv])
    /\ UNCHANGED <<decoders, decodeFn, req, target, binderCache, decoded, calls>>
    /\ UNCHANGED <<conc, aside>>

\* a value met again on the way down taken as bound already: cycles detected
EnterSkipsRevisit ==
    /\ phase = "binding"
    /\ Top.pc = "enter"
    /\ LET f  == Top
           rv == IF Kind(f.rv) = "ptr" /\ f.rv.to # 0 THEN Elem(f.rv) ELSE f.rv
       IN  IF DepthExceeded(f.depth)
           THEN Return(RecursionErr)
           ELSE IF Kind(f.rv) = "ptr" /\ f.rv.to = 0
           THEN Return(NilErr)
           ELSE IF \E j \in 1..(Len(stack) - 1) : stack[j].rv.to = f.rv.to
           THEN Return(NilErr)
           ELSE IF ~AddrImplements(rv)
           THEN Return(NilErr)
           ELSE /\ stack' = SetTop([f EXCEPT !.rv = rv,
                                             !.pc = IF Kind(rv) # "struct" THEN "scalar" ELSE "cache"])
                /\ UNCHANGED <<ret, result, phase>>
    /\ visits' = Append(visits, [via |-> MemberChain, depth |-> Top.depth, rv |-> Top.rv])
    /\ UNCHANGED <<decoders, decodeFn, req, target, binderCache, decoded, calls>>
    /\ UNCHANGED <<conc, aside>>

Enter ==
    /\ phase = "binding"
    /\ Top.pc = "enter"
    /\ LET f  == Top
           rv == IF Kind(f.rv) = "ptr" /\ f.rv.to # 0 THEN Elem(f.rv) ELSE f.rv
       IN  IF DepthExceeded(f.depth)
           THEN Return(RecursionErr)
           ELSE IF Kind(f.rv) = "ptr" /\ f.rv.to = 0
           THEN Return(NilErr)
           ELSE IF ~AddrImplements(rv)
           THEN Return(NilErr)
           ELSE /\ stack' = SetTop([f EXCEPT !.rv = rv,
                                             !.pc = IF Kind(rv) # "struct" THEN "scalar" ELSE "cache"])
                /\ UNCHANGED <<ret, result, phase>>
    /\ visits' = Append(visits, [via |-> MemberChain, depth |-> Top.depth, rv |-> Top.rv])
    /\ UNCHANGED <<decoders, decodeFn, req, target, binderCache, decoded, calls>>
    /\ UNCHANGED <<conc, aside>>

\* the failure of a value's own Bind dropped
WrapOwnSwallow(parentField, err) == NilErr

\* the failure of a value's own Bind wrapped without the path of the value
WrapOwnNoField(parentField, err) == BindError(<< >>, err)

\* the wrapping of lines 337 and 376: the failure of a value's own Bind
WrapOwn(parentField, err) == BindError(parentField, err)

\* lines 336-339: a value that is not a struct has its Bind called at once
BindScalar(e) ==
    /\ phase = "binding"
    /\ Top.pc = "scalar"
    /\ Bind(Top.rv, e)
    /\ Return(IF e # NilErr THEN WrapOwn(Top.parentField, e) ELSE NilErr)
    /\ UNCHANGED <<decoders, decodeFn, req, target, binderCache, decoded, visits>>
    /\ UNCHANGED <<conc, aside>>

\* lines 342-345: binderCache.Load(rt)
CacheLoad ==
    /\ phase = "binding"
    /\ Top.pc = "cache"
    /\ LET rt == Heap[Top.rv.to].type
       IN  IF rt \in DOMAIN binderCache
           THEN stack' = SetTop([Top EXCEPT !.binderFields = binderCache[rt], !.pc = "loop"])
           ELSE stack' = SetTop([Top EXCEPT !.pc = "scan"])
    /\ UNCHANGED <<decoders, decodeFn, req, target, binderCache, ret, result, phase,
                   decoded, visits, calls>>
    /\ UNCHANGED <<conc, aside>>

\* lines 346-354: the scan of the fields and binderCache.Store(rt, binderFields)
CacheStore ==
    /\ phase = "binding"
    /\ Top.pc = "scan"
    /\ LET rt == Heap[Top.rv.to].type
           bf == ScanFields(rt)
       IN  /\ stack' = SetTop([Top EXCEPT !.binderFields = bf, !.pc = "loop"])
           /\ binderCache' = [t \in DOMAIN binderCache \cup {rt} |->
                                 IF t = rt THEN bf ELSE binderCache[t]]
    /\ UNCHANGED <<decoders, decodeFn, req, target, ret, result, phase, decoded, visits, calls>>
    /\ UNCHANGED <<conc, aside>>

\* lines 356-365: the next member of the range loop and the recursive call on it
CallMember ==
    /\ phase = "binding"
    /\ Top.pc = "loop"
    /\ Top.n <= Len(Top.binderFields)
    /\ LET f         == Top
           i         == f.binderFields[f.n]
           field     == Heap[f.rv.to].fields[i]
           fieldName == TypeInfo[Heap[f.rv.to].type].fields[i].name
           fullPath  == FullPath(f.parentField, fieldName)
       IN  stack' = Append(SetTop([f EXCEPT !.pc = "wait"]), Frame(field, fullPath, f.depth + 1))
    /\ UNCHANGED <<decoders, decodeFn, req, target, binderCache, ret, result, phase,
                   decoded, visits, calls>>
    /\ UNCHANGED <<conc, aside>>

\* a member's error handed up bare; wrapped without the path; wrapped again
WrapMemberBare(fullPath, err) == err

WrapMemberNoField(fullPath, err) ==
    IF ErrorsAs(err) THEN err ELSE BindError(<< >>, err)

WrapMemberAlways(fullPath, err) == BindError(fullPath, err)

\* lines 366-371: what the caller returns for a member's error
WrapMember(fullPath, err) ==
    IF ErrorsAs(err) THEN err ELSE BindError(fullPath, err)

\* the loop going on to the next member whatever the call returned
MemberReturnedContinues ==
    /\ phase = "binding"
    /\ stack # << >>
    /\ Top.pc = "wait"
    /\ ret # Pending
    /\ stack' = SetTop([Top EXCEPT !.n = Top.n + 1, !.pc = "loop"])
    /\ ret' = Pending
    /\ UNCHANGED <<result, phase>>
    /\ UNCHANGED <<decoders, decodeFn, req, target, binderCache, decoded, visits, calls>>
    /\ UNCHANGED <<conc, aside>>

\* lines 365-373: the recursive call has returned
MemberReturned ==
    /\ phase = "binding"
    /\ stack # << >>
    /\ Top.pc = "wait"
    /\ ret # Pending
    /\ LET f         == Top
           i         == f.binderFields[f.n]
           fieldName == TypeInfo[Heap[f.rv.to].type].fields[i].name
           fullPath  == FullPath(f.parentField, fieldName)
       IN  IF ret # NilErr
           THEN Return(WrapMember(fullPath, ret))
           ELSE /\ stack' = SetTop([f EXCEPT !.n = f.n + 1, !.pc = "loop"])
                /\ ret' = Pending
                /\ UNCHANGED <<result, phase>>
    /\ UNCHANGED <<decoders, decodeFn, req, target, binderCache, decoded, visits, calls>>
    /\ UNCHANGED <<conc, aside>>

\* lines 375-378: after the loop, the struct's own Bind
BindSelf(e) ==
    /\ phase = "binding"
    /\ Top.pc = "loop"
    /\ Top.n > Len(Top.binderFields)
    /\ Bind(Top.rv, e)
    /\ Return(IF e # NilErr THEN WrapOwn(Top.parentField, e) ELSE NilErr)
    /\ UNCHANGED <<decoders, decodeFn, req, target, binderCache, decoded, visits>>
    /\ UNCHANGED <<conc, aside>>

Next ==
    \/ \E err \in ActiveDecode(req) : Action(err)
    \/ Enter
    \/ \E e \in BindOutcomes : BindScalar(e)
    \/ CacheLoad
    \/ CacheStore
    \/ CallMember
    \/ MemberReturned
    \/ \E e \in BindOutcomes : BindSelf(e)

Spec == Init /\ [][Next]_vars

\* Action runs synchronously in its caller's goroutine: a step that can be taken is taken.
FairSpec == Spec /\ WF_vars(Next)

(***************************************************************************)
(* The package under concurrent use.  Each goroutine calls, one call      *)
(* after the other, RegisterDecoder, GetDecoder, SetDecode,               *)
(* SetMaxMultipartMemory or Action; every step is one access to a shared  *)
(* variable or to a lock.  Of Action the decode stage is followed here,   *)
(* through getDecode, DefaultDecoder and the decoder; binder, which       *)
(* shares only binderCache, is followed in CacheSpec.                     *)
(***************************************************************************)
\* the kinds and functions the host program registers, the entrypoints and
\* thresholds it sets, and the headers of its requests
RegKinds    == { "ContentTypeJSON", "ContentTypeUnknown" }
RegFns      == { "customDecoder", "decodeJSONRequest" }
EntryFns    == { "customDecode", "DefaultDecoder" }
Sizes       == { 8 * (2 ^ 20), MaxMultipartMemoryInit }
JSONHeader      == << "application/json" >>
YAMLHeader      == << "application/yaml" >>
MultipartHeader == << "multipart/form-data", ";", " ", "boundary=x" >>

At(p, pc) == gor[p].pc = pc

SetG(p, g) == gor' = [gor EXCEPT ![p] = g]

\* what a step of the concurrent specifications never touches
Apart == <<binderCache, seq, stores, resolved, aside>>

\* func RegisterDecoder(ct, fn), line 54: decoderMu.Lock()
RegisterDecoderLock(p, ct, fn) ==
    /\ At(p, "idle")
    /\ CanLock(decoderMu)
    /\ decoderMu' = Lock(decoderMu, p)
    /\ SetG(p, [gor[p] EXCEPT !.pc = "RegisterDecoder.write", !.ct = ct, !.fn = fn])
    /\ UNCHANGED <<decoders, decodeFn, decodeMu, MaxMultipartMemory, settled, Apart>>

\* a registration that adds a kind but leaves a decoder already there in place
RegisterDecoderWriteIfAbsent(p) ==
    /\ At(p, "RegisterDecoder.write")
    /\ decoders' = [k \in DOMAIN decoders \cup {gor[p].ct} |->
                       IF k \in DOMAIN decoders THEN decoders[k] ELSE gor[p].fn]
    /\ SetG(p, [gor[p] EXCEPT !.pc = "RegisterDecoder.unlock"])
    /\ UNCHANGED <<decodeFn, decoderMu, decodeMu, MaxMultipartMemory, settled, Apart>>

\* a registration that replaces the whole map by the one entry
RegisterDecoderWriteAlone(p) ==
    /\ At(p, "RegisterDecoder.write")
    /\ decoders' = [k \in {gor[p].ct} |-> gor[p].fn]
    /\ SetG(p, [gor[p] EXCEPT !.pc = "RegisterDecoder.unlock"])
    /\ UNCHANGED <<decodeFn, decoderMu, decodeMu, MaxMultipartMemory, settled, Apart>>

\* line 56: decoders[ct] = fn
RegisterDecoderWrite(p) ==
    /\ At(p, "RegisterDecoder.write")
    /\ decoders' = [k \in DOMAIN decoders \cup {gor[p].ct} |->
                       IF k = gor[p].ct THEN gor[p].fn ELSE decoders[k]]
    /\ SetG(p, [gor[p] EXCEPT !.pc = "RegisterDecoder.unlock"])
    /\ UNCHANGED <<decodeFn, decoderMu, decodeMu, MaxMultipartMemory, settled, Apart>>

\* line 55, deferred: decoderMu.Unlock(), and the return
RegisterDecoderUnlock(p) ==
    /\ At(p, "RegisterDecoder.unlock")
    /\ decoderMu' = Unlock(decoderMu, p)
    /\ settled' = [settled EXCEPT !.decoders =
                      [k \in DOMAIN settled.decoders \cup {gor[p].ct} |->
                          IF k = gor[p].ct THEN gor[p].fn ELSE settled.decoders[k]]]
    /\ SetG(p, IdleG)
    /\ UNCHANGED <<decoders, decodeFn, decodeMu, MaxMultipartMemory, Apart>>

\* func GetDecoder(ct), line 32: decoderMu.RLock()
GetDecoderRLock(p, ct) ==
    /\ At(p, "idle")
    /\ CanRLock(decoderMu)
    /\ decoderMu' = RLock(decoderMu, p)
    /\ SetG(p, [gor[p] EXCEPT !.pc = "GetDecoder.read", !.ct = ct])
    /\ UNCHANGED <<decoders, decodeFn, decodeMu, MaxMultipartMemory, settled, Apart>>

\* line 34: dec, ok := decoders[ct]
GetDecoderRead(p) ==
    /\ At(p, "GetDecoder.read")
    /\ SetG(p, [gor[p] EXCEPT !.pc = "GetDecoder.unlock",
                              !.fn = Lookup(decoders, gor[p].ct).fn,
                              !.ok = Lookup(decoders, gor[p].ct).ok])
    /\ UNCHANGED <<decoders, decodeFn, decoderMu, decodeMu, MaxMultipartMemory, settled, Apart>>

\* line 33, deferred: decoderMu.RUnlock(), and the return of dec, ok
GetDecoderRUnlock(p) ==
    /\ At(p, "GetDecoder.unlock")
    /\ decoderMu' = RUnlock(decoderMu, p)
    /\ SetG(p, IdleG)
    /\ UNCHANGED <<decoders, decodeFn, decodeMu, MaxMultipartMemory, settled, Apart>>

\* func SetMaxMultipartMemory(size), lines 38-40: the call
SetMaxMultipartMemoryCall(p, size) ==
    /\ At(p, "idle")
    /\ SetG(p, [gor[p] EXCEPT !.pc = "SetMaxMultipartMemory.write", !.size = size])
    /\ UNCHANGED <<decoders, decodeFn, decoderMu, decodeMu, MaxMultipartMemory, settled, Apart>>

\* line 39: MaxMultipartMemory = size, and the return
SetMaxMultipartMemoryWrite(p) ==
    /\ At(p, "SetMaxMultipartMemory.write")
    /\ MaxMultipartMemory' = gor[p].size
    /\ settled' = [settled EXCEPT !.mem = gor[p].size]
    /\ SetG(p, IdleG)
    /\ UNCHANGED <<decoders, decodeFn, decoderMu, decodeMu, Apart>>

\* func SetDecode(fn), bind.go line 428: decodeMu.Lock()
SetDecodeLock(p, fn) ==
    /\ At(p, "idle")
    /\ CanLock(decodeMu)
    /\ decodeMu' = Lock(decodeMu, p)
    /\ SetG(p, [gor[p] EXCEPT !.pc = "SetDecode.write", !.fn = fn])
    /\ UNCHANGED <<decoders, decodeFn, decoderMu, MaxMultipartMemory, settled, Apart>>

\* line 430: decodeFn = fn
SetDecodeWrite(p) ==
    /\ At(p, "SetDecode.write")
    /\ decodeFn' = gor[p].fn
    /\ SetG(p, [gor[p] EXCEPT !.pc = "SetDecode.unlock"])
    /\ UNCHANGED <<decoders, decoderMu, decodeMu, MaxMultipartMemory, settled, Apart>>

\* line 429, deferred: decodeMu.Unlock(), and the return
SetDecodeUnlock(p) ==
    /\ At(p, "SetDecode.unlock")
    /\ decodeMu' = Unlock(decodeMu, p)
    /\ settled' = [settled EXCEPT !.decodeFn = gor[p].fn]
    /\ SetG(p, IdleG)
    /\ UNCHANGED <<decoders, decodeFn, decoderMu, MaxMultipartMemory, Apart>>

\* func Action(r, v), line 302, in getDecode, line 420: decodeMu.RLock()
GetDecodeRLock(p, hdr) ==
    /\ At(p, "idle")
    /\ CanRLock(decodeMu)
    /\ decodeMu' = RLock(decodeMu, p)
    /\ SetG(p, [gor[p] EXCEPT !.pc = "getDecode.read", !.hdr = hdr])
    /\ UNCHANGED <<decoders, decodeFn, decoderMu, MaxMultipartMemory, settled, Apart>>

\* getDecode returning the function the package starts with
GetDecodeReadDefault(p) ==
    /\ At(p, "getDecode.read")
    /\ SetG(p, [gor[p] EXCEPT !.pc = "getDecode.unlock", !.entry = "DefaultDecoder"])
    /\ UNCHANGED <<decoders, decodeFn, decoderMu, decodeMu, MaxMultipartMemory, settled, Apart>>

\* line 422: return decodeFn (the value returned is read here)
GetDecodeRead(p) ==
    /\ At(p, "getDecode.read")
    /\ SetG(p, [gor[p] EXCEPT !.pc = "getDecode.unlock", !.entry = decodeFn])
    /\ UNCHANGED <<decoders, decodeFn, decoderMu, decodeMu, MaxMultipartMemory, settled, Apart>>

\* line 421, deferred: decodeMu.RUnlock()
GetDecodeRUnlock(p) ==
    /\ At(p, "getDecode.unlock")
    /\ decodeMu' = RUnlock(decodeMu, p)
    /\ SetG(p, [gor[p] EXCEPT !.pc = "Action.call"])
    /\ UNCHANGED <<decoders, decodeFn, decoderMu, MaxMultipartMemory, settled, Apart>>

\* line 302: getDecode()(r, v), the function got being one the host program set
ActionCallSet(p, err) ==
    /\ At(p, "Action.call")
    /\ gor[p].entry # "DefaultDecoder"
    /\ err \in RunDecoder(gor[p].entry)
    /\ SetG(p, [gor[p] EXCEPT !.pc = "Action.return", !.invoked = gor[p].entry, !.err = err])
    /\ UNCHANGED <<decoders, decodeFn, decoderMu, decodeMu, MaxMultipartMemory, settled, Apart>>

\* line 302 with DefaultDecoder got; decoder.go lines 43-44: GetContentType of the
\* header and decoderMu.RLock()
DefaultDecoderRLock(p) ==
    /\ At(p, "Action.call")
    /\ gor[p].entry = "DefaultDecoder"
    /\ CanRLock(decoderMu)
    /\ decoderMu' = RLock(decoderMu, p)
    /\ SetG(p, [gor[p] EXCEPT !.pc = "DefaultDecoder.read", !.ct = GetContentType(gor[p].hdr)])
    /\ UNCHANGED <<decoders, decodeFn, decodeMu, MaxMultipartMemory, settled, Apart>>

\* line 45: fn, ok := decoders[ct]
DefaultDecoderRead(p) ==
    /\ At(p, "DefaultDecoder.read")
    /\ SetG(p, [gor[p] EXCEPT !.pc = "DefaultDecoder.unlock",
                              !.fn = Lookup(decoders, gor[p].ct).fn,
                              !.ok = Lookup(decoders, gor[p].ct).ok])
    /\ UNCHANGED <<decoders, decodeFn, decoderMu, decodeMu, MaxMultipartMemory, settled, Apart>>

\* the shared lock kept while the decoder found is called
DefaultDecoderKeepsLock(p) ==
    /\ At(p, "DefaultDecoder.unlock")
    /\ SetG(p, [gor[p] EXCEPT !.pc = "DefaultDecoder.call"])
    /\ UNCHANGED <<decoders, decodeFn, decoderMu, decodeMu, MaxMultipartMemory, settled, Apart>>

\* line 46: decoderMu.RUnlock()
DefaultDecoderRUnlock(p) ==
    /\ At(p, "DefaultDecoder.unlock")
    /\ decoderMu' = RUnlock(decoderMu, p)
    /\ SetG(p, [gor[p] EXCEPT !.pc = "DefaultDecoder.call"])
    /\ UNCHANGED <<decoders, decodeFn, decodeMu, MaxMultipartMemory, settled, Apart>>

\* lines 47-50: return fn(r, v) for a decoder found, the unsupported error for
\* none.  decodeMultipartFormRequest is followed in its own steps.
DefaultDecoderCall(p, err) ==
    /\ At(p, "DefaultDecoder.call")
    /\ IF ~gor[p].ok
       THEN /\ err = UnsupportedErr
            /\ SetG(p, [gor[p] EXCEPT !.pc = "Action.return", !.err = err])
       ELSE IF gor[p].fn = "decodeMultipartFormRequest"
       THEN /\ err = NilErr
            /\ SetG(p, [gor[p] EXCEPT !.pc = "decodeMultipartFormRequest.read",
                                      !.invoked = gor[p].fn])
       ELSE /\ err \in RunDecoder(gor[p].fn)
            /\ SetG(p, [gor[p] EXCEPT !.pc = "Action.return", !.invoked = gor[p].fn,
                                      !.err = err])
    /\ UNCHANGED <<decoders, decodeFn, decoderMu, decodeMu, MaxMultipartMemory, settled, Apart>>

\* func decodeMultipartFormRequest, line 80: the argument MaxMultipartMemory read
MultipartRead(p) ==
    /\ At(p, "decodeMultipartFormRequest.read")
    /\ SetG(p, [gor[p] EXCEPT !.pc = "decodeMultipartFormRequest.parse",
                              !.mem = MaxMultipartMemory])
    /\ UNCHANGED <<decoders, decodeFn, decoderMu, decodeMu, MaxMultipartMemory, settled, Apart>>

\* lines 80-87: r.ParseMultipartForm(mem), bindFiles and the form decoder
MultipartParse(p, err) ==
    /\ At(p, "decodeMultipartFormRequest.parse")
    /\ err \in RunDecoder("decodeMultipartFormRequest")
    /\ SetG(p, [gor[p] EXCEPT !.pc = "Action.return", !.err = err])
    /\ UNCHANGED <<decoders, decodeFn, decoderMu, decodeMu, MaxMultipartMemory, settled, Apart>>

\* bind.go lines 302-306: Action returns, the decode error wrapped or what binder
\* returns
ActionReturn(p) ==
    /\ At(p, "Action.return")
    /\ SetG(p, IdleG)
    /\ UNCHANGED <<decoders, decodeFn, decoderMu, decodeMu, MaxMultipartMemory, settled, Apart>>

\* The steps of Action's decode stage, for a request with one of the headers hs.
ActionSteps(p, hs) ==
    \/ \E hdr \in hs : GetDecodeRLock(p, hdr)
    \/ GetDecodeRead(p)
    \/ GetDecodeRUnlock(p)
    \/ DefaultDecoderRLock(p)
    \/ DefaultDecoderRead(p)
    \/ DefaultDecoderRUnlock(p)
    \/ \E err \in {UnsupportedErr} \cup RunDecoder(gor[p].fn) : DefaultDecoderCall(p, err)
    \/ ActionReturn(p)

\* A host program that registers and looks up decoders while requests are bound.
RegistryNext ==
    \E p \in Goroutines :
        \/ \E ct \in RegKinds, fn \in RegFns : RegisterDecoderLock(p, ct, fn)
        \/ RegisterDecoderWrite(p)
        \/ RegisterDecoderUnlock(p)
        \/ \E ct \in RegKinds : GetDecoderRLock(p, ct)
        \/ GetDecoderRead(p)
        \/ GetDecoderRUnlock(p)
        \/ ActionSteps(p, {JSONHeader, YAMLHeader})

\* A host program that swaps the decode entrypoint while requests are bound.
EntryNext ==
    \E p \in Goroutines :
        \/ \E fn \in EntryFns : SetDecodeLock(p, fn)
        \/ SetDecodeWrite(p)
        \/ SetDecodeUnlock(p)
        \/ \E err \in RunDecoder(gor[p].entry) : ActionCallSet(p, err)
        \/ ActionSteps(p, {JSONHeader, YAMLHeader})

\* A host program that sets the multipart threshold while requests are bound.
ThresholdNext ==
    \E p \in Goroutines :
        \/ \E size \in Sizes : SetMaxMultipartMemoryCall(p, size)
        \/ SetMaxMultipartMemoryWrite(p)
        \/ MultipartRead(p)
        \/ \E err \in RunDecoder("decodeMultipartFormRequest") : MultipartParse(p, err)
        \/ ActionSteps(p, {JSONHeader, MultipartHeader})

\* the state of the one call followed through binder, unused
SeqIdle ==
    /\ req = [header |-> << >>]
    /\ target = NilTarget
    /\ phase = "idle"
    /\ stack = << >>
    /\ ret = Pending
    /\ result = Pending
    /\ decoded = Pending
    /\ visits = << >>
    /\ calls = << >>

ConcSpecInit ==
    /\ decoders = BuiltinDecoders
    /\ decodeFn = "DefaultDecoder"
    /\ binderCache = << >>
    /\ SeqIdle
    /\ ConcInit
    /\ AsideIdle

RegistrySpec == ConcSpecInit /\ [][RegistryNext]_vars

EntrySpec == ConcSpecInit /\ [][EntryNext]_vars

ThresholdSpec == ConcSpecInit /\ [][ThresholdNext]_vars

(***************************************************************************)
(* binder's use of binderCache under concurrent Action calls.  Each       *)
(* goroutine walks values as binder does; of a walk the visits that reach *)
(* line 341 are followed, one after the other: the Load of the struct     *)
(* type, on a miss the scan and the Store, then the range over            *)
(* binderFields.  binderCache is a sync.Map: Load and Store are atomic.   *)
(***************************************************************************)
\* the struct types the goroutines' values are made of
CacheTypes == { "TestPayload", "Form", "MiddleBinder" }

\* what these steps never touch
ApartFromCache ==
    <<decoders, decodeFn, seq, decoderMu, decodeMu, MaxMultipartMemory, settled, resolved,
      aside>>

\* the number of Store calls made for type rt
Count(f, rt) == IF rt \in DOMAIN f THEN f[rt] ELSE 0

\* cached.([]int): the type assertion holds for a slice of int
IsIntSlice(x) == x \in Seq(Nat)

\* lines 319-341: binder on a value of struct type rt that implements Binder
BinderVisit(p, rt) ==
    /\ At(p, "idle")
    /\ SetG(p, [gor[p] EXCEPT !.pc = "binder.load", !.rt = rt])
    /\ UNCHANGED <<binderCache, stores, ApartFromCache>>

\* a visit that computes the descriptor whether it is cached or not
BinderLoadMiss(p) ==
    /\ At(p, "binder.load")
    /\ SetG(p, [gor[p] EXCEPT !.pc = "binder.scan"])
    /\ UNCHANGED <<binderCache, stores, ApartFromCache>>

\* lines 343-345: cached, ok := binderCache.Load(rt); binderFields = cached.([]int)
BinderLoad(p) ==
    /\ At(p, "binder.load")
    /\ IF gor[p].rt \in DOMAIN binderCache
       THEN IF IsIntSlice(binderCache[gor[p].rt])
            THEN SetG(p, [gor[p] EXCEPT !.pc = "binder.range",
                                        !.binderFields = binderCache[gor[p].rt]])
            ELSE SetG(p, [gor[p] EXCEPT !.pc = "panic", !.panicked = TRUE])
       ELSE SetG(p, [gor[p] EXCEPT !.pc = "binder.scan"])
    /\ UNCHANGED <<binderCache, stores, ApartFromCache>>

\* a Store that adds the indices to the entry it finds
BinderStoreAppend(p) ==
    /\ At(p, "binder.scan")
    /\ LET rt == gor[p].rt
           bf == ScanFields(rt)
       IN  /\ binderCache' = [t \in DOMAIN binderCache \cup {rt} |->
                                 IF t # rt THEN binderCache[t]
                                 ELSE IF rt \in DOMAIN binderCache THEN binderCache[rt] \o bf
                                 ELSE bf]
           /\ stores' = [t \in DOMAIN stores \cup {rt} |->
                            IF t = rt THEN Count(stores, rt) + 1 ELSE stores[t]]
           /\ SetG(p, [gor[p] EXCEPT !.pc = "binder.range", !.binderFields = bf])
    /\ UNCHANGED ApartFromCache

\* lines 346-354: the scan of the fields and binderCache.Store(rt, binderFields)
BinderStore(p) ==
    /\ At(p, "binder.scan")
    /\ LET rt == gor[p].rt
           bf == ScanFields(rt)
       IN  /\ binderCache' = [t \in DOMAIN binderCache \cup {rt} |->
                                 IF t = rt THEN bf ELSE binderCache[t]]
           /\ stores' = [t \in DOMAIN stores \cup {rt} |->
                            IF t = rt THEN Count(stores, rt) + 1 ELSE stores[t]]
           /\ SetG(p, [gor[p] EXCEPT !.pc = "binder.range", !.binderFields = bf])
    /\ UNCHANGED ApartFromCache

\* lines 356-378: the range over binderFields and the value's own Bind
BinderRange(p) ==
    /\ At(p, "binder.range")
    /\ SetG(p, IdleG)
    /\ UNCHANGED <<binderCache, stores, ApartFromCache>>

CacheNext ==
    \E p \in Goroutines :
        \/ \E rt \in CacheTypes : BinderVisit(p, rt)
        \/ BinderLoad(p)
        \/ BinderStore(p)
        \/ BinderRange(p)

CacheSpec == ConcSpecInit /\ [][CacheNext]_vars

(***************************************************************************)
(* GetContentType applied to header values: every sequence of at most     *)
(* MaxHeaderLen tokens, drawn from the media types of the table, words    *)
(* outside it, the separator and white space.                              *)
(***************************************************************************)
MaxHeaderLen == 3

HeaderWords ==
    { "text/plain", "text/html", "application/xhtml+xml", "application/json",
      "text/javascript", "application/problem+json", "application/vnd.api+json",
      "text/xml", "application/xml", "application/x-www-form-urlencoded",
      "multipart/form-data", "text/event-stream",
      "application/jso", "Application/JSON", "*/*", "charset=utf-8" }

HeaderTokens == HeaderWords \cup {Semicolon} \cup WhiteSpace

\* two words side by side would be one word
Headers ==
    { h \in UNION { [1..n -> HeaderTokens] : n \in 0..MaxHeaderLen } :
        \A i \in 1..(Len(h) - 1) : ~(h[i] \in HeaderWords /\ h[i + 1] \in HeaderWords) }

ContentTypeInit ==
    /\ decoders = BuiltinDecoders
    /\ decodeFn = "DefaultDecoder"
    /\ binderCache = << >>
    /\ req \in [header : Headers]
    /\ target = NilTarget
    /\ phase = "idle"
    /\ stack = << >>
    /\ ret = Pending
    /\ result = Pending
    /\ decoded = Pending
    /\ visits = << >>
    /\ calls = << >>
    /\ ConcInit
    /\ AsideIdle

\* ct := GetContentType(r.Header.Get("Content-Type"))
Resolve ==
    /\ resolved = ""
    /\ resolved' = GetContentType(req.header)
    /\ UNCHANGED <<decoders, decodeFn, binderCache, seq, decoderMu, decodeMu,
                   MaxMultipartMemory, gor, settled, stores, aside>>

ContentTypeNext == Resolve

ContentTypeSpec == ContentTypeInit /\ [][ContentTypeNext]_vars

(***************************************************************************)
(* The built-in decoders.  One default decode of a request of one of the  *)
(* four kinds the registry starts with is followed through the decoder    *)
(* and each of its return paths: the codec or the parse, which reads the  *)
(* body up to some position and succeeds or fails, for multipart          *)
(* bindFiles member by member, the form decoder, and the deferred         *)
(* io.Copy(io.Discard, r.Body).  The stream hands out its bytes and then  *)
(* io.EOF.                                                                 *)
(***************************************************************************)
DecoderHeaders ==
    { JSONHeader, << "application/xml" >>, << "application/x-www-form-urlencoded" >>,
      MultipartHeader }

DecoderInit ==
    /\ decoders = BuiltinDecoders
    /\ decodeFn = "DefaultDecoder"
    /\ binderCache = << >>
    /\ req \in [header : DecoderHeaders]
    /\ target = NilTarget
    /\ phase = "idle"
    /\ stack = << >>
    /\ ret = Pending
    /\ result = Pending
    /\ decoded = Pending
    /\ visits = << >>
    /\ calls = << >>
    /\ ConcInit
    /\ body \in [ len : 0..MaxBody, pos : {0},
                   File : IF req.header = MultipartHeader THEN Uploads ELSE { << >> } ]
    /\ form = NoForm
    /\ dest \in Dests
    /\ dcall = IdleCall
    /\ conv = NoConv

\* what the steps of a decoder never touch
ApartFromDecoder == <<decoders, decodeFn, binderCache, seq, conc, conv>>

\* the body read on from where it is, to position k
ReadTo(k) == [body EXCEPT !.pos = k]

Stage(name) == Append(dcall.stages, name)

\* decoder.go lines 43-48: DefaultDecoder finds the decoder of the request's kind and
\* calls it; lines 60, 65, 70, 79: the decoder defers io.Copy(io.Discard, r.Body)
DecoderCall ==
    /\ dcall.pc = "idle"
    /\ LET fn == decoders[GetContentType(req.header)]
       IN  dcall' = [dcall EXCEPT
                        !.fn = fn,
                        !.deferred = TRUE,
                        !.pc = CASE fn \in {"decodeJSONRequest", "decodeXMLRequest"} -> "Decode"
                                 [] fn = "decodeFormRequest" -> "ParseForm"
                                 [] fn = "decodeMultipartFormRequest" -> "ParseMultipartForm"]
    /\ UNCHANGED <<body, form, dest, ApartFromDecoder>>

\* lines 61 and 66: return json.NewDecoder(r.Body).Decode(v), and the same for xml
Decode(k, err) ==
    /\ dcall.pc = "Decode"
    /\ k \in body.pos..body.len
    /\ err \in RunDecoder(dcall.fn)
    /\ body' = ReadTo(k)
    /\ dcall' = [dcall EXCEPT !.pc = "defer", !.err = err, !.readTo = k, !.stages = Stage("Decode")]
    /\ UNCHANGED <<form, dest, ApartFromDecoder>>

\* lines 71-73: r.ParseForm(), its error returned
ParseForm(k, err) ==
    /\ dcall.pc = "ParseForm"
    /\ k \in body.pos..body.len
    /\ err \in RunDecoder("ParseForm")
    /\ body' = ReadTo(k)
    /\ dcall' = IF err # NilErr
                THEN [dcall EXCEPT !.pc = "defer", !.err = err, !.readTo = k,
                                   !.stages = Stage("ParseForm")]
                ELSE [dcall EXCEPT !.pc = "form.Decode", !.readTo = k,
                                   !.stages = Stage("ParseForm")]
    /\ UNCHANGED <<form, dest, ApartFromDecoder>>

\* a form that failed to parse handed on to the later stages
ParseMultipartFormGoesOn(k, err) ==
    /\ dcall.pc = "ParseMultipartForm"
    /\ k \in body.pos..body.len
    /\ err \in RunDecoder("ParseMultipartForm")
    /\ body' = ReadTo(k)
    /\ dcall' = [dcall EXCEPT !.pc = "bindFiles", !.readTo = k,
                              !.stages = Stage("ParseMultipartForm")]
    /\ form' = [parsed |-> err = NilErr, File |-> IF err = NilErr THEN body.File ELSE << >>]
    /\ UNCHANGED <<dest, ApartFromDecoder>>

\* lines 80-82: r.ParseMultipartForm(MaxMultipartMemory), its error returned; on
\* success r.MultipartForm holds the files of the body
ParseMultipartForm(k, err) ==
    /\ dcall.pc = "ParseMultipartForm"
    /\ k \in body.pos..body.len
    /\ err \in RunDecoder("ParseMultipartForm")
    /\ body' = ReadTo(k)
    /\ IF err # NilErr
       THEN /\ dcall' = [dcall EXCEPT !.pc = "defer", !.err = err, !.readTo = k,
                                      !.stages = Stage("ParseMultipartForm")]
            /\ UNCHANGED form
       ELSE /\ dcall' = [dcall EXCEPT !.pc = "bindFiles", !.readTo = k,
                                      !.stages = Stage("ParseMultipartForm")]
            /\ form' = [parsed |-> TRUE, File |-> body.File]
    /\ UNCHANGED <<dest, ApartFromDecoder>>

NonPointerErr == ErrorString(<< Lit("bind: non-pointer passed to bindFiles") >>)

\* reflect.ValueOf(v).Kind(), and rv.Elem().Kind() of a pointer
DestKind == IF dest.ptr THEN "ptr" ELSE DestTypes[dest.type].kind
DestElemKind == IF dest.nil THEN "invalid" ELSE DestTypes[dest.type].kind

\* a value that is not a pointer taken as it is, without an error
BindFilesEnterLenient ==
    /\ dcall.pc = "bindFiles"
    /\ IF DestKind # "ptr" \/ DestElemKind # "struct"
       THEN dcall' = [dcall EXCEPT !.pc = "form.Decode", !.ferr = NilErr, !.before = dest.fields,
                                   !.stages = Stage("bindFiles")]
       ELSE dcall' = [dcall EXCEPT !.pc = "bindFiles.loop", !.i = 1, !.before = dest.fields,
                                   !.stages = Stage("bindFiles")]
    /\ UNCHANGED <<body, form, dest, ApartFromDecoder>>

\* line 83: bindFiles(r, v); lines 91-101: the tests of v, whose failure
\* decodeMultipartFormRequest returns (line 84)
BindFilesEnter ==
    /\ dcall.pc = "bindFiles"
    /\ IF DestKind # "ptr"
       THEN dcall' = [dcall EXCEPT !.pc = "defer", !.ferr = NonPointerErr, !.err = NonPointerErr,
                                   !.before = dest.fields, !.stages = Stage("bindFiles")]
       ELSE IF DestElemKind # "struct"
       THEN dcall' = [dcall EXCEPT !.pc = "form.Decode", !.ferr = NilErr, !.before = dest.fields,
                                   !.stages = Stage("bindFiles")]
       ELSE dcall' = [dcall EXCEPT !.pc = "bindFiles.loop", !.i = 1, !.before = dest.fields,
                                   !.stages = Stage("bindFiles")]
    /\ UNCHANGED <<body, form, dest, ApartFromDecoder>>

\* every field taken as settable
CanSetAlways(f) == TRUE

\* field.CanSet() for a field of the addressable struct v points at
CanSet(f) == f.exported

\* the last file in place of the first, and the files in reverse
SetLast(ty, files) ==
    IF ty = fileHeaderPtrType THEN FilePtr(files[Len(files)])
    ELSE FileSlice([n \in 1..Len(files) |-> files[Len(files) + 1 - n]])

\* lines 118 and 120: field.Set(reflect.ValueOf(files[0])), field.Set(reflect.ValueOf(files))
Set(ty, files) ==
    IF ty = fileHeaderPtrType THEN FilePtr(files[1]) ELSE FileSlice(files)

\* lines 103-121, one turn of the loop: the value member i has after it
BindField(i) ==
    LET fieldType == DestTypes[dest.type].fields[i]
        formTag   == fieldType.tag
        ok        == formTag \in DOMAIN form.File
    IN  IF formTag = "" THEN dest.fields[i]
        ELSE IF ~ok \/ Len(form.File[formTag]) = 0 THEN dest.fields[i]
        ELSE IF ~CanSet(fieldType) THEN dest.fields[i]
        ELSE IF fieldType.type \in {fileHeaderPtrType, fileHeaderSliceType}
        THEN Set(fieldType.type, form.File[formTag])
        ELSE dest.fields[i]

\* lines 102-122: for i := 0; i < rv.NumField(); i++
BindFilesField ==
    /\ dcall.pc = "bindFiles.loop"
    /\ dcall.i <= Len(DestTypes[dest.type].fields)
    /\ dest' = [dest EXCEPT !.fields[dcall.i] = BindField(dcall.i)]
    /\ dcall' = [dcall EXCEPT !.i = dcall.i + 1]
    /\ UNCHANGED <<body, form, ApartFromDecoder>>

\* line 123: return nil, and on to the form decoder (lines 83-86)
BindFilesReturn ==
    /\ dcall.pc = "bindFiles.loop"
    /\ dcall.i > Len(DestTypes[dest.type].fields)
    /\ dcall' = [dcall EXCEPT !.pc = "form.Decode", !.ferr = NilErr]
    /\ UNCHANGED <<body, form, dest, ApartFromDecoder>>

\* the members the form decoder fills from the text values of the form: those of
\* type string with a tag
Filled(d) ==
    IF d.nil \/ ~d.ptr THEN d
    ELSE [d EXCEPT !.fields =
            [i \in 1..Len(d.fields) |->
                LET f == DestTypes[d.type].fields[i]
                IN  IF f.type = "string" /\ f.tag # "" /\ f.exported
                    THEN Str(f.tag) ELSE d.fields[i]]]

\* lines 74-75 and 86-87: form.NewDecoder().Decode(v, values), its result returned
FormDecode(err) ==
    /\ dcall.pc = "form.Decode"
    /\ err \in RunDecoder("form.Decode")
    /\ dest' = IF err = NilErr THEN Filled(dest) ELSE dest
    /\ dcall' = [dcall EXCEPT !.pc = "defer", !.err = err, !.stages = Stage("form.Decode")]
    /\ UNCHANGED <<body, form, ApartFromDecoder>>

\* the rest of the body read only when the decode succeeded
DrainOnSuccess ==
    /\ dcall.pc = "defer"
    /\ body' = IF dcall.err = NilErr THEN ReadTo(body.len) ELSE body
    /\ dcall' = [dcall EXCEPT !.pc = "returned", !.deferred = FALSE]
    /\ UNCHANGED <<form, dest, ApartFromDecoder>>

\* the deferred call of lines 60, 65, 70, 79, run as the decoder returns:
\* io.Copy(io.Discard, r.Body) reads the body to io.EOF
Drain ==
    /\ dcall.pc = "defer"
    /\ dcall.deferred
    /\ body' = ReadTo(body.len)
    /\ dcall' = [dcall EXCEPT !.pc = "returned", !.deferred = FALSE]
    /\ UNCHANGED <<form, dest, ApartFromDecoder>>

DecoderNext ==
    \/ DecoderCall
    \/ \E k \in 0..MaxBody, err \in RunDecoder(dcall.fn) : Decode(k, err)
    \/ \E k \in 0..MaxBody, err \in RunDecoder("ParseForm") : ParseForm(k, err)
    \/ \E k \in 0..MaxBody, err \in RunDecoder("ParseMultipartForm") : ParseMultipartForm(k, err)
    \/ BindFilesEnter
    \/ BindFilesField
    \/ BindFilesReturn
    \/ \E err \in RunDecoder("form.Decode") : FormDecode(err)
    \/ Drain

DecoderSpec == DecoderInit /\ [][DecoderNext]_vars

(***************************************************************************)
(* The error converters, ErrorToMap and ErrorToJSON, applied to one       *)
(* error.  A text is a sequence of tokens; a token is one character or a  *)
(* run of characters that encoding/json writes as they are (letters,      *)
(* digits, spaces, the punctuation of the messages of this package and    *)
(* the identifiers of a field path).                                       *)
(***************************************************************************)
MaxMsg == 2

Quote     == Lit("\"")
Backslash == Lit("\\")
Newline   == Lit("\n")
Less      == Lit("<")
Amp       == Lit("&")
LBrace    == Lit("{")
RBrace    == Lit("}")
Colon     == Lit(":")
Comma     == Lit(",")

\* the characters of the messages converted
MsgChars == { Lit("name is required"), Quote, Backslash, Newline, Less, Amp, RBrace, Comma }

RECURSIVE MsgsOf(_)
MsgsOf(n) ==
    IF n = 0 THEN { << >> }
    ELSE MsgsOf(n - 1) \cup { Append(m, c) : m \in MsgsOf(n - 1), c \in MsgChars }

\* the errors handed to a converter: none, an error of the caller with any
\* message, and such an error as Action returns it
ConvErrors ==
    LET plain == { ErrorString(m) : m \in MsgsOf(MaxMsg) }
    IN  {NilErr} \cup plain
                 \cup { BindError(f, e) : f \in { << >>, << "Address", "City" >> }, e \in plain }

ConvertInit ==
    /\ decoders = BuiltinDecoders
    /\ decodeFn = "DefaultDecoder"
    /\ binderCache = << >>
    /\ req = [header |-> << >>]
    /\ target = NilTarget
    /\ phase = "idle"
    /\ stack = << >>
    /\ ret = Pending
    /\ result = Pending
    /\ decoded = Pending
    /\ visits = << >>
    /\ calls = << >>
    /\ ConcInit
    /\ body = [len |-> 0, pos |-> 0, File |-> << >>]
    /\ form = NoForm
    /\ dest = NilDest("Upload")
    /\ dcall = IdleCall
    /\ conv \in { [NoConv EXCEPT !.src = e] : e \in ConvErrors }

\* what a converter never touches
ApartFromConvert == <<decoders, decodeFn, binderCache, seq, conc, body, form, dest, dcall>>

\* the text of a token left as it is
EscapeNone(c) == << c >>

\* encoding/json on one character of a string, HTML escaping on as in
\* json.Marshal
Escape(c) ==
    IF c = Quote THEN << Backslash, Quote >>
    ELSE IF c = Backslash THEN << Backslash, Backslash >>
    ELSE IF c = Newline THEN << Backslash, Lit("n") >>
    ELSE IF c = Less THEN << Backslash, Lit("u003c") >>
    ELSE IF c = Amp THEN << Backslash, Lit("u0026") >>
    ELSE << c >>

RECURSIVE EncodeString(_)
\* a string as a JSON string, without its quotes
EncodeString(text) ==
    IF text = << >> THEN << >>
    ELSE Escape(Head(text)) \o EncodeString(Tail(text))

\* json.Marshal(map[string]string{"error": msg}): never fails for a map of
\* strings
Marshal(msg) ==
    [ b   |-> << LBrace, Quote >> \o EncodeString(<< Lit("error") >>) \o << Quote, Colon, Quote >>
                  \o EncodeString(msg) \o << Quote, RBrace >>,
      err |-> NilErr ]

\* []byte(`{"error":""}`)
EmptyErrorJSON == << LBrace, Quote, Lit("error"), Quote, Colon, Quote, Quote, RBrace >>
\* []byte(`{"error":"failed to marshal error message"}`)
FallbackJSON ==
    << LBrace, Quote, Lit("error"), Quote, Colon, Quote,
       Lit("failed to marshal error message"), Quote, RBrace >>

\* a map of strings with one key
MapOf(k, v) == [ key \in {k} |-> v ]

\* the map without its entry when there is no error
ErrorToMapOmit(src) ==
    IF src = NilErr THEN << >> ELSE MapOf("error", ErrorText(src))

\* func ErrorToMap(src error) map[string]string
ErrorToMap(src) ==
    IF src = NilErr THEN MapOf("error", << >>)
    ELSE MapOf("error", ErrorText(src))

\* func ErrorToJSON(src error) []byte
ErrorToJSON(src) ==
    IF src = NilErr THEN EmptyErrorJSON
    ELSE LET m == Marshal(ErrorText(src))
         IN  IF m.err # NilErr THEN FallbackJSON ELSE m.b

CallErrorToMap ==
    /\ "ErrorToMap" \notin conv.called
    /\ conv' = [conv EXCEPT !.called = @ \cup {"ErrorToMap"}, !.map = ErrorToMap(conv.src)]
    /\ UNCHANGED ApartFromConvert

CallErrorToJSON ==
    /\ "ErrorToJSON" \notin conv.called
    /\ conv' = [conv EXCEPT !.called = @ \cup {"ErrorToJSON"}, !.json = ErrorToJSON(conv.src)]
    /\ UNCHANGED ApartFromConvert

ConvertNext ==
    \/ CallErrorToMap
    \/ CallErrorToJSON

ConvertSpec == ConvertInit /\ [][ConvertNext]_vars

(***************************************************************************)
(* Functions of the host program that call back into the package.  A      *)
(* function the host program has registered as a decoder (customDecoder)  *)
(* or set as the decode entrypoint (customDecode) is run by the goroutine *)
(* of the request; while it runs it may itself call RegisterDecoder,      *)
(* GetDecoder or SetDecode, once, and then returns.  cb is the call it is *)
(* going to make ("none" for a function that makes no call, "done" after  *)
(* the call), cbct and cbfn are the arguments and cbok what GetDecoder    *)
(* found.                                                                  *)
(***************************************************************************)
Callbacks == { "none", "RegisterDecoder", "GetDecoder", "SetDecode" }

CallbackKinds == { "ContentTypeJSON" }

\* line 302 and decoder.go line 48: the function looked up is called.  A function
\* of the host program starts to run; it is the one the goroutine read.
HostFnEnter(p, cb) ==
    /\ \/ At(p, "Action.call") /\ gor[p].entry # "DefaultDecoder"
       \/ At(p, "DefaultDecoder.call") /\ gor[p].ok /\ gor[p].fn = "customDecoder"
    /\ SetG(p, [gor[p] EXCEPT !.pc = "host.run", !.cb = cb,
                              !.invoked = IF gor[p].entry # "DefaultDecoder"
                                          THEN gor[p].entry ELSE gor[p].fn])
    /\ UNCHANGED <<decoders, decodeFn, decoderMu, decodeMu, MaxMultipartMemory, settled, Apart>>

\* decoder.go lines 47-50 for a built-in decoder, which makes no call back
BuiltinCall(p, err) ==
    /\ gor[p].fn # "customDecoder"
    /\ DefaultDecoderCall(p, err)

\* the host function calls RegisterDecoder(ct, fn): decoder.go line 54
CbRegisterDecoderLock(p, ct, fn) ==
    /\ At(p, "host.run") /\ gor[p].cb = "RegisterDecoder"
    /\ CanLock(decoderMu)
    /\ decoderMu' = Lock(decoderMu, p)
    /\ SetG(p, [gor[p] EXCEPT !.pc = "host.RegisterDecoder.write", !.cbct = ct, !.cbfn = fn])
    /\ UNCHANGED <<decoders, decodeFn, decodeMu, MaxMultipartMemory, settled, Apart>>

\* line 56
CbRegisterDecoderWrite(p) ==
    /\ At(p, "host.RegisterDecoder.write")
    /\ decoders' = [k \in DOMAIN decoders \cup {gor[p].cbct} |->
                       IF k = gor[p].cbct THEN gor[p].cbfn ELSE decoders[k]]
    /\ SetG(p, [gor[p] EXCEPT !.pc = "host.RegisterDecoder.unlock"])
    /\ UNCHANGED <<decodeFn, decoderMu, decodeMu, MaxMultipartMemory, settled, Apart>>

\* line 55, deferred, and the return into the host function
CbRegisterDecoderUnlock(p) ==
    /\ At(p, "host.RegisterDecoder.unlock")
    /\ decoderMu' = Unlock(decoderMu, p)
    /\ settled' = [settled EXCEPT !.decoders =
                      [k \in DOMAIN settled.decoders \cup {gor[p].cbct} |->
                          IF k = gor[p].cbct THEN gor[p].cbfn ELSE settled.decoders[k]]]
    /\ SetG(p, [gor[p] EXCEPT !.pc = "host.run", !.cb = "done"])
    /\ UNCHANGED <<decoders, decodeFn, decodeMu, MaxMultipartMemory, Apart>>

\* the host function calls GetDecoder(ct): decoder.go line 32
CbGetDecoderRLock(p, ct) ==
    /\ At(p, "host.run") /\ gor[p].cb = "GetDecoder"
    /\ CanRLock(decoderMu)
    /\ decoderMu' = RLock(decoderMu, p)
    /\ SetG(p, [gor[p] EXCEPT !.pc = "host.GetDecoder.read", !.cbct = ct])
    /\ UNCHANGED <<decoders, decodeFn, decodeMu, MaxMultipartMemory, settled, Apart>>

\* line 34
CbGetDecoderRead(p) ==
    /\ At(p, "host.GetDecoder.read")
    /\ SetG(p, [gor[p] EXCEPT !.pc = "host.GetDecoder.unlock",
                              !.cbfn = Lookup(decoders, gor[p].cbct).fn,
                              !.cbok = Lookup(decoders, gor[p].cbct).ok])
    /\ UNCHANGED <<decoders, decodeFn, decoderMu, decodeMu, MaxMultipartMemory, settled, Apart>>

\* line 33, deferred, and the return into the host function
CbGetDecoderRUnlock(p) ==
    /\ At(p, "host.GetDecoder.unlock")
    /\ decoderMu' = RUnlock(decoderMu, p)
    /\ SetG(p, [gor[p] EXCEPT !.pc = "host.run", !.cb = "done"])
    /\ UNCHANGED <<decoders, decodeFn, decodeMu, MaxMultipartMemory, settled, Apart>>

\* the host function calls SetDecode(fn): bind.go line 428
CbSetDecodeLock(p, fn) ==
    /\ At(p, "host.run") /\ gor[p].cb = "SetDecode"
    /\ CanLock(decodeMu)
    /\ decodeMu' = Lock(decodeMu, p)
    /\ SetG(p, [gor[p] EXCEPT !.pc = "host.SetDecode.write", !.cbfn = fn])
    /\ UNCHANGED <<decoders, decodeFn, decoderMu, MaxMultipartMemory, settled, Apart>>

\* line 430
CbSetDecodeWrite(p) ==
    /\ At(p, "host.SetDecode.write")
    /\ decodeFn' = gor[p].cbfn
    /\ SetG(p, [gor[p] EXCEPT !.pc = "host.SetDecode.unlock"])
    /\ UNCHANGED <<decoders, decoderMu, decodeMu, MaxMultipartMemory, settled, Apart>>

\* line 429, deferred, and the return into the host function
CbSetDecodeUnlock(p) ==
    /\ At(p, "host.SetDecode.unlock")
    /\ decodeMu' = Unlock(decodeMu, p)
    /\ settled' = [settled EXCEPT !.decodeFn = gor[p].cbfn]
    /\ SetG(p, [gor[p] EXCEPT !.pc = "host.run", !.cb = "done"])
    /\ UNCHANGED <<decoders, decodeFn, decoderMu, MaxMultipartMemory, Apart>>

\* the host function returns, and with it DefaultDecoder if it was called by it
HostFnReturn(p, err) ==
    /\ At(p, "host.run") /\ gor[p].cb \in {"none", "done"}
    /\ err \in RunDecoder(gor[p].invoked)
    /\ SetG(p, [gor[p] EXCEPT !.pc = "Action.return", !.err = err])
    /\ UNCHANGED <<decoders, decodeFn, decoderMu, decodeMu, MaxMultipartMemory, settled, Apart>>

\* the steps by which a call that is under way goes on and returns
Finish(p) ==
    \/ RegisterDecoderWrite(p)
    \/ RegisterDecoderUnlock(p)
    \/ GetDecoderRead(p)
    \/ GetDecoderRUnlock(p)
    \/ SetDecodeWrite(p)
    \/ SetDecodeUnlock(p)
    \/ GetDecodeRead(p)
    \/ GetDecodeRUnlock(p)
    \/ DefaultDecoderRLock(p)
    \/ DefaultDecoderRead(p)
    \/ DefaultDecoderRUnlock(p)
    \/ \E err \in RunDecoder(gor[p].fn) : BuiltinCall(p, err)
    \/ \E cb \in Callbacks : HostFnEnter(p, cb)
    \/ \E ct \in CallbackKinds, fn \in RegFns : CbRegisterDecoderLock(p, ct, fn)
    \/ CbRegisterDecoderWrite(p)
    \/ CbRegisterDecoderUnlock(p)
    \/ \E ct \in CallbackKinds : CbGetDecoderRLock(p, ct)
    \/ CbGetDecoderRead(p)
    \/ CbGetDecoderRUnlock(p)
    \/ \E fn \in EntryFns : CbSetDecodeLock(p, fn)
    \/ CbSetDecodeWrite(p)
    \/ CbSetDecodeUnlock(p)
    \/ \E err \in RunDecoder(gor[p].invoked) : HostFnReturn(p, err)
    \/ ActionReturn(p)

\* A host program whose decoders call back into the package while other
\* goroutines register decoders, set the entrypoint and bind requests.
\* the goroutine that serves the requests; the others administer the package
Server == CHOOSE p \in Goroutines : \A q \in Goroutines : p <= q

CallbackNext ==
    \E p \in Goroutines :
        \/ \E ct \in CallbackKinds, fn \in RegFns : p # Server /\ RegisterDecoderLock(p, ct, fn)
        \/ \E fn \in EntryFns : p # Server /\ SetDecodeLock(p, fn)
        \/ \E ct \in CallbackKinds : p # Server /\ GetDecoderRLock(p, ct)
        \/ p = Server /\ GetDecodeRLock(p, JSONHeader)
        \/ Finish(p)

CallbackSpec == ConcSpecInit /\ [][CallbackNext]_vars

(***************************************************************************)
(* Vocabulary of the properties.                                           *)
(***************************************************************************)
Done == phase = "done"

Last(q) == q[Len(q)]

\* a Bind invocation that returned an error
Failed(c) == c.res # NilErr

\* the members of object o that participate: the values of the fields of o's
\* descriptor that are not nil
Members(o) ==
    { Heap[o].fields[i].to : i \in { ScanFields(Heap[o].type)[n] :
                                         n \in 1..Len(ScanFields(Heap[o].type)) } } \ {0}

RECURSIVE Reach(_, _)
Reach(S, n) == IF n = 0 THEN S ELSE Reach(S \cup UNION { Members(o) : o \in S }, n - 1)

\* every participating value below o
Subtree(o) == Reach(Members(o), Len(Heap))

\* the binder calls that entered at a depth beyond the ceiling
Exceeded == { n \in 1..Len(visits) : visits[n].depth > maxRecursionDepth }

(***************************************************************************)
(* C1: bottom-up ordering.  Whenever Bind of a node is invoked, Bind of   *)
(* every non-nil participating member in the node's subtree has already   *)
(* been invoked and has returned success, and the Bind of the root is the *)
(* last invocation.                                                        *)
(***************************************************************************)
C1_BottomUp ==
    \A j \in 1..Len(calls) :
        /\ \A m \in Subtree(calls[j].obj) :
               \E i \in 1..(j - 1) : calls[i].obj = m /\ ~Failed(calls[i])
        /\ (calls[j].via = << >> => j = Len(calls))

\* The order alone, over the members binder dispatches on (a member reached through
\* a pointer or held by value): their Bind precedes the Bind of the enclosing value.
Dispatched(o) ==
    { Heap[o].fields[i].to : i \in { n \in 1..Len(Heap[o].fields) :
          /\ TypeImplements(TypeInfo[Heap[o].type].fields[n])
          /\ TypeInfo[Heap[o].type].fields[n].k \in {"ptr", "named"} } } \ {0}

BottomUpDispatched ==
    \A j \in 1..Len(calls) :
        \A m \in Dispatched(calls[j].obj) :
            \E i \in 1..(j - 1) : calls[i].obj = m /\ ~Failed(calls[i])

(***************************************************************************)
(* C2: short-circuit on the first failure.  Once a Bind invocation has    *)
(* returned an error no further Bind is invoked in that Action: only the  *)
(* last invocation of the history can be a failed one.                    *)
(***************************************************************************)
C2_ShortCircuit ==
    \A j \in 1..(Len(calls) - 1) : ~Failed(calls[j])

\* Inner of a Form's First has failed, with the members Val, Code and Last of the
\* Form and the Binds of the MiddleBinder and of the Form still to come.
C2_Witness ==
    /\ Done
    /\ target = FormTarget(Ptr(2), Ptr(3), Iface(8), Ptr(4))
    /\ Len(calls) = 1
    /\ calls[1].obj = 3
    /\ Failed(calls[1])

(***************************************************************************)
(* C3: field path of a nested failure.  When the Bind of a value reached  *)
(* from the root through the members m1, ..., mk (k >= 1) fails, Action   *)
(* returns a BindError whose Field is m1.m2. ... .mk.                      *)
(***************************************************************************)
C3_NestedFieldPath ==
    (Done /\ calls # << >> /\ Failed(Last(calls)) /\ Last(calls).via # << >>)
        => (result.t = "BindError" /\ result.Field = Last(calls).via)

\* Outer{Middle{Inner}} with Inner failing:
\* "bind failed on field 'Middle.Inner': inner error"
C3_Witness ==
    /\ Done
    /\ target = OuterTarget(Ptr(2), Ptr(3))
    /\ calls # << >>
    /\ Last(calls).via = << "Middle", "Inner" >>
    /\ ErrorText(result) = << Lit("bind failed on field '"), Path(<< "Middle", "Inner" >>),
                              Lit("': "), Lit("inner error") >>

(***************************************************************************)
(* C4: a decode failure aborts the pipeline.  If the active decode        *)
(* entrypoint returns an error e, Action returns a BindError with empty   *)
(* Field whose Unwrap() is e, and no binder call and no Bind is made.     *)
(***************************************************************************)
C4_DecodeFailureAborts ==
    (decoded # Pending /\ decoded # NilErr)
        => /\ Done
           /\ result.t = "BindError"
           /\ result.Field = << >>
           /\ Unwrap(result) = decoded
           /\ visits = << >>
           /\ calls = << >>

\* a JSON body the codec rejects, on a target whose members would otherwise be bound
C4_Witness ==
    /\ Done
    /\ GetContentType(req.header) = "ContentTypeJSON"
    /\ decoded \in RunDecoder("decodeJSONRequest") \ {NilErr}
    /\ target = OuterTarget(Ptr(2), Ptr(3))
    /\ ErrorText(result) = << Lit("bind failed: ") >> \o decoded.msg

(***************************************************************************)
(* C5: every non-nil error Action returns is a BindError value, whatever  *)
(* the failing stage.                                                      *)
(***************************************************************************)
C5_AlwaysBindError ==
    (Done /\ result # NilErr) => result.t = "BindError"

\* the stage whose own error is not a BindError: the recursion limit
C5_Witness ==
    /\ Done
    /\ Exceeded # {}
    /\ result.t = "BindError"
    /\ Unwrap(result).t = "errorString"

(***************************************************************************)
(* C6: the recursion ceiling.  If the walk reaches a position deeper than *)
(* maxRecursionDepth, Action returns, and what it returns is a non-nil    *)
(* error whose message contains "max recursion depth (<ceiling>)          *)
(* exceeded".                                                              *)
(***************************************************************************)
C6_RecursionCeiling ==
    (Exceeded # {}) ~>
        (Done /\ result # NilErr /\ Contains(ErrorText(result), RecursionMsg))

\* the chain of the test: one node more than the ceiling, the last Child nil
C6_Witness ==
    /\ Done
    /\ target = Chain(maxRecursionDepth + 1, NilPtr)
    /\ Exceeded # {}
    /\ Contains(ErrorText(result), RecursionMsg)

(***************************************************************************)
(* C7 as stated: the error Action returns when the ceiling is exceeded    *)
(* carries no field path (it is not a BindError with a non-empty Field).  *)
(***************************************************************************)
C7_NoFieldPath ==
    (Done /\ Exceeded # {}) => ~(result.t = "BindError" /\ result.Field # << >>)

(***************************************************************************)
(* C7 amended: the call that finds the ceiling exceeded returns a plain   *)
(* error, and the calling frame wraps it once (line 371): Action returns  *)
(* the BindError whose Field is the full path of the position beyond the  *)
(* ceiling and whose cause is the plain recursion-limit error.            *)
(***************************************************************************)
C7_WrappedWithPath ==
    /\ (Done /\ Exceeded # {}) =>
           \E n \in Exceeded :
               /\ visits[n].via # << >>
               /\ result = BindError(visits[n].via, RecursionErr)
    /\ (ret.t = "errorString" => ret = RecursionErr /\ Exceeded # {})

\* a genuinely cyclic value: two nodes, the second pointing back at the root
C7_Witness ==
    /\ Done
    /\ target = Chain(2, Ptr(1))
    /\ result.t = "BindError"
    /\ Len(result.Field) = maxRecursionDepth + 1
    /\ result.Err = RecursionErr

(***************************************************************************)
(* C8 as stated: visiting a nil member returns no error.                  *)
(***************************************************************************)
\* a recursive call on a member has just returned to its caller
JustReturned == stack # << >> /\ Top.pc = "wait" /\ ret # Pending

\* the value of that member
ReturnedMember == Heap[Top.rv.to].fields[Top.binderFields[Top.n]]

C8_NilMemberNoError ==
    (JustReturned /\ ReturnedMember.to = 0) => ret = NilErr

(***************************************************************************)
(* C8 amended: a nil member at a depth within the ceiling is a successful *)
(* no-op: its visit returns no error, no Bind is invoked on it, and the   *)
(* remaining members and the enclosing value's own Bind still run (on a   *)
(* successful Action every value binder dispatched on has been bound).    *)
(* A nil member one level beyond the ceiling fails with the recursion     *)
(* limit, the depth check coming first.                                   *)
(***************************************************************************)
\* the values whose visit passed the checks of lines 320-333
Bound == { calls[j].obj : j \in 1..Len(calls) }

Entered ==
    { visits[n].rv.to : n \in { m \in 1..Len(visits) :
          /\ visits[m].depth <= maxRecursionDepth
          /\ visits[m].rv.k \in {"ptr", "val"}
          /\ visits[m].rv.to # 0 } }

C8_NilMemberNoOp ==
    /\ (JustReturned /\ ReturnedMember.to = 0) =>
           IF Top.depth + 1 <= maxRecursionDepth
           THEN ret = NilErr
           ELSE ret = RecursionErr
    /\ 0 \notin Bound
    /\ (Done /\ result = NilErr) => Entered \subseteq Bound

\* a Form whose First is nil and whose Last is not: Last and the Form are bound
C8_Witness ==
    /\ Done
    /\ result = NilErr
    /\ target = FormTarget(NilPtr, NilPtr, Iface(0), Ptr(4))
    /\ \E n \in 1..Len(visits) : visits[n].via = << "First" >> /\ visits[n].rv = NilPtr
    /\ {4, 1} \subseteq Bound

(***************************************************************************)
(* C9: no double wrapping.  For a failed Bind at any depth, what travels  *)
(* up through the calling frames and what Action returns is the one       *)
(* BindError made in the failing call: its Unwrap() is the very error the *)
(* Bind method returned.                                                   *)
(***************************************************************************)
C9_SingleWrap ==
    (calls # << >> /\ Failed(Last(calls))) =>
        /\ (ret # Pending => ret = BindError(Last(calls).via, Last(calls).res))
        /\ (Done => Unwrap(result) = Last(calls).res)

\* a Bind at the deepest position within the ceiling returns an error that is
\* itself a BindError
C9_Witness ==
    /\ Done
    /\ target = BranchChain(maxRecursionDepth)
    /\ calls # << >>
    /\ Len(Last(calls).via) = maxRecursionDepth
    /\ Last(calls).res.t = "BindError"
    /\ Unwrap(result) = Last(calls).res

(***************************************************************************)
(* C10: characterisation of success.  Action returns nil exactly when the *)
(* decode succeeded, no visited position was beyond the ceiling and every *)
(* Bind invoked returned success; otherwise it returns the first error    *)
(* met, wrapped.                                                          *)
(***************************************************************************)
FailedCalls == { j \in 1..Len(calls) : Failed(calls[j]) }

C10_SuccessIff ==
    Done =>
        /\ result = NilErr <=> (decoded = NilErr /\ Exceeded = {} /\ FailedCalls = {})
        /\ decoded # NilErr => Unwrap(result) = decoded
        /\ Exceeded # {} => Unwrap(result) = RecursionErr
        /\ FailedCalls # {} =>
               Unwrap(result) = calls[CHOOSE j \in FailedCalls : \A k \in FailedCalls : j <= k].res

\* a root without participating members, a decodable body and a succeeding Bind
C10_Witness ==
    /\ Done
    /\ target = LeafTarget
    /\ decoded = NilErr
    /\ Len(calls) = 1
    /\ result = NilErr

(***************************************************************************)
(* C11: rendering of BindError.  Error() is "bind failed on field         *)
(* '<Field>': <cause>" when Field is not empty and "bind failed: <cause>" *)
(* when it is, <cause> being the text of the stored error, and Unwrap()   *)
(* is the stored error itself.  Stated of every BindError a binder call   *)
(* or Action returns.                                                      *)
(***************************************************************************)
Returned == { e \in {ret, result} : e.t = "BindError" }

C11_Rendering ==
    \A e \in Returned :
        /\ e.Field # << >> =>
               /\ Len(ErrorText(e)) = 3 + Len(ErrorText(e.Err))
               /\ SubSeq(ErrorText(e), 1, 3) =
                      << Lit("bind failed on field '"), Path(e.Field), Lit("': ") >>
               /\ SubSeq(ErrorText(e), 4, Len(ErrorText(e))) = ErrorText(e.Err)
        /\ e.Field = << >> =>
               /\ Len(ErrorText(e)) = 1 + Len(ErrorText(e.Err))
               /\ ErrorText(e)[1] = Lit("bind failed: ")
               /\ SubSeq(ErrorText(e), 2, Len(ErrorText(e))) = ErrorText(e.Err)
        /\ Unwrap(e) = e.Err

\* the root's own Bind returns an error that is a BindError with a Field: both
\* forms in one message
C11_Witness ==
    /\ Done
    /\ target = LeafTarget
    /\ result = BindError(<< >>, BindError(<< "Own" >>,
                                ErrorString(<< Lit("city is a required field") >>)))
    /\ ErrorText(result) = << Lit("bind failed: "), Lit("bind failed on field '"),
                              Path(<< "Own" >>), Lit("': "), Lit("city is a required field") >>

(***************************************************************************)
(* Vocabulary of the properties of the concurrent specifications.         *)
(***************************************************************************)
\* a RegisterDecoder call for kind k is between its Lock and its return
InRegisterDecoder(k) ==
    \E q \in Goroutines :
        /\ gor[q].pc \in {"RegisterDecoder.write", "RegisterDecoder.unlock"}
        /\ gor[q].ct = k

\* goroutine p is at a read, at a write, of the decoders map
ReadsDecoders(p)  == gor[p].pc \in {"GetDecoder.read", "DefaultDecoder.read"}
WritesDecoders(p) == At(p, "RegisterDecoder.write")

\* a default decode has returned to Action in goroutine p
DefaultDecoded(p) == At(p, "Action.return") /\ gor[p].entry = "DefaultDecoder"

\* the media-type strings the resolution recognizes
RecognizedMediaTypes ==
    { "text/plain", "text/html", "application/xhtml+xml", "application/json",
      "text/javascript", "application/problem+json", "application/vnd.api+json",
      "text/xml", "application/xml", "application/x-www-form-urlencoded",
      "multipart/form-data", "text/event-stream" }

(***************************************************************************)
(* C12: registration takes effect immediately and is reversible.  When    *)
(* RegisterDecoder(k, f) returns the registry holds f for k; while no     *)
(* registration for k is under way the registry holds for k what the last *)
(* registration for k to return put there (at first the built-in);        *)
(* GetDecoder(k) returns what the registry holds when it reads, and a     *)
(* default decode invokes the decoder the registry held for the request's *)
(* kind when it read: f after RegisterDecoder(k, f), g and no longer f    *)
(* after a later RegisterDecoder(k, g).                                    *)
(***************************************************************************)
C12_RegistrationImmediate ==
    /\ \A p \in Goroutines :
           At(p, "RegisterDecoder.unlock") =>
               Lookup(decoders, gor[p].ct) = [fn |-> gor[p].fn, ok |-> TRUE]
    /\ \A k \in ContentTypes :
           ~InRegisterDecoder(k) => Lookup(decoders, k) = Lookup(settled.decoders, k)
    /\ \A p \in Goroutines :
           gor[p].pc \in {"GetDecoder.unlock", "DefaultDecoder.unlock"} =>
               [fn |-> gor[p].fn, ok |-> gor[p].ok] = Lookup(decoders, gor[p].ct)
    /\ \A p \in Goroutines :
           (DefaultDecoded(p) /\ gor[p].ok) => gor[p].invoked = gor[p].fn

\* a JSON request was decoded by the registered customDecoder in place of the
\* built-in, and the built-in has since been registered again and is what
\* GetDecoder now returns
C12_Witness ==
    \E p, q \in Goroutines :
        /\ DefaultDecoded(p)
        /\ gor[p].hdr = JSONHeader
        /\ gor[p].invoked = "customDecoder"
        /\ settled.decoders["ContentTypeJSON"] = "decodeJSONRequest"
        /\ At(q, "GetDecoder.unlock")
        /\ gor[q].ct = "ContentTypeJSON"
        /\ gor[q].fn = "decodeJSONRequest"
        /\ gor[q].ok

(***************************************************************************)
(* C13: unsupported content type.  In every state of the registry a       *)
(* request whose Content-Type header is not a recognized media type       *)
(* resolves to Unknown and its default decode fails with "bind:           *)
(* unsupported content type" without a decoder being invoked, which       *)
(* Action returns as a BindError with empty Field; the same for a         *)
(* recognized kind that has no decoder.                                    *)
(***************************************************************************)
Unrecognized(hdr) == \A i \in 1..Len(hdr) : hdr[i] \notin RecognizedMediaTypes

C13_UnsupportedContentType ==
    \A p \in Goroutines :
        (DefaultDecoded(p) /\ (Unrecognized(gor[p].hdr) \/ ~gor[p].ok)) =>
            /\ Unrecognized(gor[p].hdr) => gor[p].ct = "ContentTypeUnknown"
            /\ gor[p].invoked = ""
            /\ gor[p].err = UnsupportedErr
            /\ ActionWrap(gor[p].err) = BindError(<< >>, UnsupportedErr)

(***************************************************************************)
(* C18: lock discipline of the registry.  Every read of the decoders map  *)
(* is made holding decoderMu shared and every write holding it            *)
(* exclusively; a write never coincides with a read or another write.     *)
(* Several readers may hold the lock at once.                              *)
(***************************************************************************)
C18_RegistryLockDiscipline ==
    /\ \A p \in Goroutines :
           ReadsDecoders(p) => (p \in decoderMu.r /\ decoderMu.w = 0)
    /\ \A p \in Goroutines :
           WritesDecoders(p) => (decoderMu.w = p /\ decoderMu.r = {})
    /\ \A p, q \in Goroutines :
           (p # q /\ WritesDecoders(p)) => (~ReadsDecoders(q) /\ ~WritesDecoders(q))

\* a GetDecoder and a default decode reading the map at once, while a
\* registration has yet to get the lock
C18_Witness ==
    \E p, q \in Goroutines :
        /\ At(p, "GetDecoder.read")
        /\ At(q, "DefaultDecoder.read")
        /\ decoderMu.r = {p, q}
        /\ ~CanLock(decoderMu)

(***************************************************************************)
(* C19: the multipart threshold under concurrent use.  The write of       *)
(* SetMaxMultipartMemory never coincides with the read of a multipart     *)
(* decode or with another write; the threshold is 32 MiB at first, and    *)
(* while no setter is under way it is what the last setter to return      *)
(* put, which is what a decode then reads.                                 *)
(***************************************************************************)
ReadsThreshold(p)  == At(p, "decodeMultipartFormRequest.read")
WritesThreshold(p) == At(p, "SetMaxMultipartMemory.write")

C19_ThresholdSynchronized ==
    /\ \A p, q \in Goroutines :
           (p # q /\ WritesThreshold(p)) => (~ReadsThreshold(q) /\ ~WritesThreshold(q))
    /\ MaxMultipartMemory = settled.mem
    /\ settled.mem \in Sizes

(***************************************************************************)
(* C20: the swappable decode entrypoint.  The active function is          *)
(* DefaultDecoder at first.  When SetDecode(f) returns decodeFn is f, and *)
(* it stays what the last SetDecode to return put while none is under     *)
(* way; getDecode returns what decodeFn holds when it reads, and Action   *)
(* calls the function got: a function set by the host program is called   *)
(* without the registry being read, DefaultDecoder reads it.  Reads of    *)
(* decodeFn hold decodeMu shared, writes hold it exclusively, and a write *)
(* never coincides with a read or another write.                           *)
(***************************************************************************)
ReadsDecodeFn(p)  == At(p, "getDecode.read")
WritesDecodeFn(p) == At(p, "SetDecode.write")

C20_Swapped ==
    /\ \A p \in Goroutines : At(p, "SetDecode.unlock") => decodeFn = gor[p].fn
    /\ decodeMu.w = 0 => decodeFn = settled.decodeFn
    /\ \A p \in Goroutines : At(p, "getDecode.unlock") => gor[p].entry = decodeFn
    /\ \A p \in Goroutines :
           At(p, "Action.return") =>
               IF gor[p].entry # "DefaultDecoder"
               THEN /\ gor[p].invoked = gor[p].entry
                    /\ gor[p].ct = "" /\ gor[p].fn = "" /\ ~gor[p].ok
               ELSE /\ gor[p].ct = GetContentType(gor[p].hdr)
                    /\ gor[p].invoked = (IF gor[p].ok THEN gor[p].fn ELSE "")
    /\ \A p \in Goroutines : ReadsDecodeFn(p) => (p \in decodeMu.r /\ decodeMu.w = 0)
    /\ \A p \in Goroutines : WritesDecodeFn(p) => (decodeMu.w = p /\ decodeMu.r = {})
    /\ \A p, q \in Goroutines :
           (p # q /\ WritesDecodeFn(p)) => (~ReadsDecodeFn(q) /\ ~WritesDecodeFn(q))

C20_SwappableDecode == decodeFn = "DefaultDecoder" /\ []C20_Swapped

\* an Action that called customDecode, set by a SetDecode that has returned, while
\* another goroutine is about to put DefaultDecoder back
C20_Witness ==
    \E p, q \in Goroutines :
        /\ At(p, "Action.return")
        /\ gor[p].invoked = "customDecode"
        /\ gor[p].ct = ""
        /\ settled.decodeFn = "customDecode"
        /\ At(q, "SetDecode.write")
        /\ gor[q].fn = "DefaultDecoder"

(***************************************************************************)
(* C14: parameters are stripped.  For every recognized media type m and   *)
(* every text after it that starts with ";", the header m followed by     *)
(* that text resolves to the kind m alone resolves to.                     *)
(***************************************************************************)
C14_ParametersStripped ==
    resolved # "" =>
        \A m \in RecognizedMediaTypes :
            (Len(req.header) >= 2 /\ req.header[1] = m /\ req.header[2] = Semicolon) =>
                resolved = GetContentType(<< m >>)

\* application/json;charset=utf-8
C14_Witness ==
    /\ req.header = << "application/json", ";", "charset=utf-8" >>
    /\ resolved = "ContentTypeJSON"

(***************************************************************************)
(* C15: resolution is a total exact-match lookup.  What is left of the    *)
(* header once everything from the first ";" is removed and the white     *)
(* space around it trimmed resolves to the kind of the table entry equal  *)
(* to it, and to Unknown when no entry equals it: the empty header, a     *)
(* prefix of an entry, another spelling of it, "*/*".                      *)
(***************************************************************************)
MediaTypeKind(w) ==
    CASE w = "text/plain"                                  -> "ContentTypePlainText"
      [] w \in {"text/html", "application/xhtml+xml"}      -> "ContentTypeHTML"
      [] w \in {"application/json", "text/javascript",
                "application/problem+json", "application/vnd.api+json"} -> "ContentTypeJSON"
      [] w \in {"text/xml", "application/xml"}             -> "ContentTypeXML"
      [] w = "application/x-www-form-urlencoded"           -> "ContentTypeForm"
      [] w = "multipart/form-data"                         -> "ContentTypeMultipart"
      [] w = "text/event-stream"                           -> "ContentTypeEventStream"

\* h is w with white space around it, followed by nothing or by ";" and any text
Bare(h, w) ==
    \E i \in 1..Len(h) :
        /\ h[i] = w
        /\ \A j \in 1..(i - 1) : h[j] \in {" ", "\t"}
        /\ \E k \in i..Len(h) :
               /\ \A j \in (i + 1)..k : h[j] \in {" ", "\t"}
               /\ (k = Len(h) \/ h[k + 1] = ";")

C15_ExactMatchTable ==
    resolved # "" =>
        /\ \A w \in RecognizedMediaTypes :
               Bare(req.header, w) => resolved = MediaTypeKind(w)
        /\ (~\E w \in RecognizedMediaTypes : Bare(req.header, w)) =>
               resolved = "ContentTypeUnknown"
        /\ req.header \in { << >>, << "application/jso" >>, << "Application/JSON" >>,
                            << "*/*" >> } => resolved = "ContentTypeUnknown"

\* an alias of JSON between white space, before the separator
C15_Witness ==
    /\ req.header = << " ", "application/problem+json", "\t" >>
    /\ resolved = "ContentTypeJSON"

(***************************************************************************)
(* C16: the descriptor cache is consistent under concurrency.  In every   *)
(* interleaving of concurrent visits, first computations racing included, *)
(* an entry of the cache is the member-index list computed from its type, *)
(* every visit ranges over exactly that list, no visit panics, and an     *)
(* entry once present is never removed and never changes.                 *)
(***************************************************************************)
\* the descriptors as the declarations of the types give them
Descriptor(rt) ==
    CASE rt = "TestPayload"  -> << >>
      [] rt = "MiddleBinder" -> << 1 >>
      [] rt = "Form"         -> << 2, 3, 4, 6, 7 >>

C16_EntriesRight ==
    /\ \A rt \in DOMAIN binderCache : binderCache[rt] = Descriptor(rt)
    /\ \A p \in Goroutines :
           At(p, "binder.range") => gor[p].binderFields = Descriptor(gor[p].rt)
    /\ \A p \in Goroutines : ~gor[p].panicked

C16_EntriesKept ==
    \A rt \in DOMAIN binderCache :
        rt \in DOMAIN binderCache' /\ binderCache'[rt] = binderCache[rt]

C16_CacheConsistent == []C16_EntriesRight /\ [][C16_EntriesKept]_vars

\* two first visits of Form have raced and both have stored; a visit ranges over
\* the list
C16_Witness ==
    /\ Count(stores, "Form") = 2
    /\ binderCache["Form"] = << 2, 3, 4, 6, 7 >>
    /\ \E p \in Goroutines : At(p, "binder.range") /\ gor[p].rt = "Form"

(***************************************************************************)
(* C17 as stated: the descriptor of a type is written to the cache once.  *)
(***************************************************************************)
C17_WrittenOnce ==
    \A rt \in DOMAIN stores : stores[rt] <= 1

(***************************************************************************)
(* C17 amended: a visit computes and stores the descriptor of its type    *)
(* only when its Load found no entry, and a visit that loads once the     *)
(* entry is present only reads.  Visits that load before the first Store  *)
(* each compute and store, the same list, so a type is stored at most     *)
(* once per goroutine that raced and the cache has an entry exactly for   *)
(* the types stored.                                                       *)
(***************************************************************************)
Scanning(rt) == { p \in Goroutines : At(p, "binder.scan") /\ gor[p].rt = rt }

C17_Counts ==
    /\ \A rt \in CacheTypes :
           Count(stores, rt) + Cardinality(Scanning(rt)) <= NumGoroutines
    /\ DOMAIN stores = DOMAIN binderCache

\* the step a visit takes from its Load
C17_MissOnly ==
    \A p \in Goroutines :
        (At(p, "binder.load") /\ gor'[p] # gor[p]) =>
            IF gor[p].rt \in DOMAIN binderCache
            THEN /\ gor'[p].pc = "binder.range"
                 /\ gor'[p].binderFields = binderCache[gor[p].rt]
                 /\ UNCHANGED <<binderCache, stores>>
            ELSE gor'[p].pc = "binder.scan"

C17_StoredAfterMiss == []C17_Counts /\ [][C17_MissOnly]_vars

\* a type stored twice by two racing first visits, and a later visit of it that has
\* loaded the entry
C17_Witness ==
    /\ Count(stores, "MiddleBinder") = NumGoroutines
    /\ \E p \in Goroutines :
           /\ At(p, "binder.range")
           /\ gor[p].rt = "MiddleBinder"
           /\ Scanning("MiddleBinder") = {}

(***************************************************************************)
(* Vocabulary of the properties about members.                             *)
(***************************************************************************)
\* a field whose value, or the address of whose value, has the method Bind: a
\* pointer to or a value of a type that declares Bind on either receiver, or the
\* interface Binder
Capable(f) ==
    \/ f.k = "iface"
    \/ f.k \in {"ptr", "named"} /\ TypeInfo[f.elem].recv # "none"

\* the non-nil members of object o held in such fields
CapableMembers(o) ==
    { Heap[o].fields[i].to : i \in { n \in 1..Len(Heap[o].fields) :
                                         Capable(TypeInfo[Heap[o].type].fields[n]) } } \ {0}

RECURSIVE ReachCapable(_, _)
ReachCapable(S, n) ==
    IF n = 0 THEN S ELSE ReachCapable(S \cup UNION { CapableMembers(o) : o \in S }, n - 1)

\* every such member nested in v, at any level
Nested == ReachCapable(CapableMembers(target.root.to), Len(Heap))

Succeeded == Done /\ result = NilErr

(***************************************************************************)
(* C21: Bind is called on every nested member that implements Binder.     *)
(* When Action has returned nil, every non-nil nested member whose value  *)
(* or whose address implements Binder, declared as a pointer or held by   *)
(* value, has had its Bind invoked.                                        *)
(***************************************************************************)
C21_EveryMemberBound ==
    (Succeeded /\ target.root.to # 0) => Nested \subseteq Bound

(***************************************************************************)
(* C22: embedded members are handled structurally.  A member brought in   *)
(* by embedding whose type implements Binder is in the descriptor of the  *)
(* embedding type exactly as a declared member is, the descriptor lists   *)
(* the members in declaration order and they are visited in that order,   *)
(* the path handed to the visit of an embedded member ends in its         *)
(* promoted name, the name of its type, and Action on a value with        *)
(* embedded members returns nil when the decode and every Bind invoked    *)
(* succeed.                                                                *)
(***************************************************************************)
IsEmbedded(f) == f.name = f.elem

\* the members of type rt whose type implements Binder, in declaration order
Implementing(rt) == SelectSeq(TypeInfo[rt].fields, TypeImplements)

\* the visits made at depth d so far, in order
VisitsAt(d) == SelectSeq(visits, LAMBDA v : v.depth = d)

Embedding == EnvelopeTargets \cup {EmbeddedTarget}

RECURSIVE Flatten(_)
Flatten(ss) == IF ss = << >> THEN << >> ELSE Head(ss) \o Flatten(Tail(ss))

\* the post-order of the tree below object o, at most n levels of it, over the
\* fields of the descriptor whose declared type is of one of the kinds ks
RECURSIVE PostOrder(_, _, _)
PostOrder(o, n, ks) ==
    IF n = 0 THEN << >>
    ELSE LET d    == ScanFields(Heap[o].type)
             kids == [ i \in 1..Len(d) |->
                         IF Heap[o].fields[d[i]].to # 0 /\ TypeInfo[Heap[o].type].fields[d[i]].k \in ks
                         THEN PostOrder(Heap[o].fields[d[i]].to, n - 1, ks)
                         ELSE << >> ]
         IN  Flatten(kids) \o << o >>

Objs == [ j \in 1..Len(calls) |-> calls[j].obj ]

FieldKinds == { "ptr", "named", "iface" }

PostOrderDispatched ==
    (Succeeded /\ target.root.to # 0) =>
        Objs = PostOrder(target.root.to, Len(Heap), {"ptr", "named"})

(***************************************************************************)
(* C29: a struct's own Bind failure is wrapped at the path by which the   *)
(* struct was reached.  When the members of a struct reached at path p    *)
(* have succeeded and its own Bind returns e, the call and Action return  *)
(* BindError{Field: p, Err: e}, never with the path of a member; for v    *)
(* itself p is empty and the message is "bind failed: " and the cause.    *)
(***************************************************************************)
OwnFailure ==
    /\ calls # << >>
    /\ Failed(Last(calls))
    /\ TypeInfo[Heap[Last(calls).obj].type].kind = "struct"

C29_OwnFailurePath ==
    OwnFailure =>
        LET p == Last(calls).via
            e == Last(calls).res
        IN  /\ Len(stack) < Len(p) + 1
            /\ (ret # Pending /\ Len(stack) = Len(p)) => ret = BindError(p, e)
            /\ Done =>
                   /\ result = BindError(p, e)
                   /\ \A f \in { TypeInfo[Heap[Last(calls).obj].type].fields[i] :
                                     i \in 1..Len(TypeInfo[Heap[Last(calls).obj].type].fields) } :
                          result.Field # p \o << f.name >>
                   /\ p = << >> =>
                          /\ result.Field = << >>
                          /\ ErrorText(result) = << Lit("bind failed: ") >> \o ErrorText(e)

\* Inner of an Envelope's MiddleBinder has succeeded and MiddleBinder's own Bind
\* fails: the field is MiddleBinder, not MiddleBinder.Inner
C29_Witness ==
    /\ Done
    /\ target = EnvelopeTarget(Ptr(3), Ptr(4), Ptr(6))
    /\ Len(calls) = 3
    /\ calls[2].obj = 4 /\ ~Failed(calls[2])
    /\ calls[3].obj = 3 /\ Failed(calls[3])
    /\ result = BindError(<< "MiddleBinder" >>, ErrorString(<< Lit("inner error") >>))

(***************************************************************************)
(* C30: the exact depth boundary.  The depth check is a strict "greater   *)
(* than" and comes before the nil check: on a chain of k nested non-nil   *)
(* DeepBinder values (v at depth 0) ending in a nil Child, with the       *)
(* decode succeeding, no position is beyond the ceiling when k is at most *)
(* the ceiling, and Action returns nil if every Bind does; when k is the  *)
(* ceiling plus one or more, Action fails with the recursion-limit error, *)
(* at the position one level beyond the ceiling whether it holds nil or   *)
(* not, and no Bind has been invoked.                                      *)
(***************************************************************************)
NilChains == { Chain(k, NilPtr) : k \in 1..MaxChain }

C30_DepthBoundary ==
    (target \in NilChains /\ decoded = NilErr) =>
        LET k == Len(Heap)
        IN  IF k <= maxRecursionDepth
            THEN /\ Exceeded = {}
                 /\ (Done /\ FailedCalls = {}) => (result = NilErr /\ Len(calls) = k)
            ELSE /\ calls = << >>
                 /\ \A n \in Exceeded :
                        /\ n = Len(visits)
                        /\ visits[n].depth = maxRecursionDepth + 1
                        /\ (k = maxRecursionDepth + 1 <=> visits[n].rv = NilPtr)
                 /\ Done =>
                        /\ Exceeded # {}
                        /\ result # NilErr
                        /\ Unwrap(result) = RecursionErr

\* one value more than the ceiling: the visit of the nil Child fails
C30_Witness ==
    /\ Done
    /\ target = Chain(maxRecursionDepth + 1, NilPtr)
    /\ visits # << >>
    /\ Last(visits).rv = NilPtr
    /\ Last(visits).depth = maxRecursionDepth + 1
    /\ calls = << >>
    /\ Unwrap(result) = RecursionErr

\* as many values as the ceiling: the nil Child is visited at the ceiling and every
\* value is bound
C30_AtCeiling ==
    /\ Succeeded
    /\ target = Chain(maxRecursionDepth, NilPtr)
    /\ Last(visits).rv = NilPtr
    /\ Last(visits).depth = maxRecursionDepth
    /\ Len(calls) = maxRecursionDepth

(***************************************************************************)
(* Vocabulary of the properties of the decoders.                           *)
(***************************************************************************)
\* bindFiles has returned and the decoder has not gone on to the form decoder
JustBound == dcall.ferr # Pending /\ Last(dcall.stages) = "bindFiles"

\* v points at a struct
StructDest == dest.ptr /\ ~dest.nil /\ DestTypes[dest.type].kind = "struct"

DestFields == DestTypes[dest.type].fields

\* the form holds at least one file under the name tag
Uploaded(tag) == tag \in DOMAIN form.File /\ Len(form.File[tag]) >= 1

FileShapes == { fileHeaderPtrType, fileHeaderSliceType }

\* member i of v holds what the claim says: the first file, the files in upload order
Assigned(i) ==
    /\ DestFields[i].type = fileHeaderPtrType =>
           dest.fields[i] = FilePtr(FileHeader(DestFields[i].tag, 1))
    /\ DestFields[i].type = fileHeaderSliceType =>
           /\ dest.fields[i].k = "slice"
           /\ Len(dest.fields[i].files) = Len(form.File[DestFields[i].tag])
           /\ \A n \in 1..Len(dest.fields[i].files) :
                  dest.fields[i].files[n] = FileHeader(DestFields[i].tag, n)

(***************************************************************************)
(* C23 as stated: when bindFiles returns, every member of the struct      *)
(* tagged with a form field name under which the form holds at least one  *)
(* file holds the first file if its type is *multipart.FileHeader and all *)
(* the files in upload order if its type is []*multipart.FileHeader.      *)
(***************************************************************************)
C23_FilesAssigned ==
    (JustBound /\ StructDest) =>
        \A i \in 1..Len(DestFields) :
            (DestFields[i].tag # "" /\ Uploaded(DestFields[i].tag)) => Assigned(i)

(***************************************************************************)
(* C23 amended: the same of every member that can be set, that is, every  *)
(* exported member; a member that cannot be set is passed over even when  *)
(* it is tagged, of a file type and files were uploaded under its name.   *)
(***************************************************************************)
C23_SettableFilesAssigned ==
    (JustBound /\ StructDest) =>
        \A i \in 1..Len(DestFields) :
            (DestFields[i].tag # "" /\ Uploaded(DestFields[i].tag)) =>
                IF DestFields[i].exported
                THEN Assigned(i)
                ELSE dest.fields[i] = dcall.before[i]

\* two files under "file" and one under "files", into an Upload used before
C23_Witness ==
    /\ JustBound
    /\ StructDest
    /\ dest.type = "Upload"
    /\ dcall.before[2] = FilePtr(OldFile)
    /\ DOMAIN form.File = {"file", "files"}
    /\ Len(form.File["file"]) = 2
    /\ dest.fields[2] = FilePtr(FileHeader("file", 1))
    /\ dest.fields[6] = FileSlice(<< FileHeader("file", 1), FileHeader("file", 2) >>)
    /\ dest.fields[7] = FilePtr(FileHeader("files", 1))
    /\ dest.fields[4] = FilePtr(OldFile)

(***************************************************************************)
(* C24: file population leaves everything else as it was and does not     *)
(* fail for it.  A member without the form tag, a tagged member under     *)
(* whose name no file was uploaded, a tagged member of neither file type  *)
(* and a member that cannot be set hold, through the loop and when        *)
(* bindFiles returns, the value they held when it was called, and         *)
(* bindFiles on a struct returns nil.                                      *)
(***************************************************************************)
C24_OthersUntouched ==
    (StructDest /\ (dcall.pc = "bindFiles.loop" \/ JustBound)) =>
        /\ \A i \in 1..Len(DestFields) :
               (\/ DestFields[i].tag = ""
                \/ ~Uploaded(DestFields[i].tag)
                \/ DestFields[i].type \notin FileShapes
                \/ ~DestFields[i].exported) => dest.fields[i] = dcall.before[i]
        /\ dcall.ferr \in {Pending, NilErr}
        /\ JustBound => (dcall.ferr = NilErr /\ dcall.pc = "form.Decode")

\* an Upload used before, files uploaded under "file" only: Spare (no tag), hidden
\* (unexported), First (nothing under "files") keep the earlier file, Avatar is set
C24_Witness ==
    /\ JustBound
    /\ StructDest
    /\ dest.type = "Upload"
    /\ DOMAIN form.File = {"file"}
    /\ Len(form.File["file"]) = 1
    /\ dest.fields[2] = FilePtr(FileHeader("file", 1))
    /\ dest.fields[3] = FilePtr(OldFile)
    /\ dest.fields[4] = FilePtr(OldFile)
    /\ dest.fields[7] = FilePtr(OldFile)
    /\ dcall.ferr = NilErr

(***************************************************************************)
(* C25: the argument of bindFiles.  For a v that is not a pointer         *)
(* bindFiles returns "bind: non-pointer passed to bindFiles", which the   *)
(* decoder returns, and no member is looked at; for a pointer to a value  *)
(* that is not a struct it returns nil and no member is looked at.        *)
(***************************************************************************)
C25_ArgumentHandling ==
    dcall.ferr # Pending =>
        /\ ~dest.ptr =>
               /\ dcall.ferr = NonPointerErr
               /\ ErrorText(dcall.ferr) = << Lit("bind: non-pointer passed to bindFiles") >>
               /\ dcall.err = NonPointerErr
               /\ dcall.i = 0
               /\ dest.fields = dcall.before
               /\ "form.Decode" \notin { dcall.stages[n] : n \in 1..Len(dcall.stages) }
        /\ (dest.ptr /\ ~StructDest) =>
               /\ dcall.ferr = NilErr
               /\ dcall.i = 0
               /\ JustBound => (dest.fields = dcall.before /\ dcall.pc = "form.Decode")

\* a ValueBinder passed by value: the multipart decode has returned the error
C25_Witness ==
    /\ dcall.pc = "returned"
    /\ dest = ValDest("ValueBinder")
    /\ dcall.err = NonPointerErr
    /\ \E n \in DOMAIN form.File : Len(form.File[n]) >= 1

\* a pointer to a StatusCode: nothing to populate, the decode goes on
C25_NonStruct ==
    /\ JustBound
    /\ dest = PtrDest("StatusCode", FALSE)
    /\ dcall.ferr = NilErr
    /\ dcall.pc = "form.Decode"

(***************************************************************************)
(* C26: body draining.  When a built-in decoder (JSON, XML, urlencoded    *)
(* form, multipart form) has returned, with nil or with an error from any *)
(* of its stages, the body has been read to its end; from its first line  *)
(* to its return the decoder has the deferred read pending.               *)
(***************************************************************************)
C26_BodyDrained ==
    /\ dcall.pc = "returned" =>
           /\ dcall.fn \in { BuiltinDecoders[k] : k \in DOMAIN BuiltinDecoders }
           /\ body.pos = body.len
    /\ dcall.pc \notin {"idle", "returned"} => dcall.deferred

\* a multipart body of which ParseMultipartForm read nothing before it failed
C26_Witness ==
    /\ dcall.pc = "returned"
    /\ dcall.fn = "decodeMultipartFormRequest"
    /\ dcall.err \in RunDecoder("ParseMultipartForm") \ {NilErr}
    /\ dcall.readTo = 0
    /\ body.len = MaxBody
    /\ body.pos = body.len


(***************************************************************************)
(* Vocabulary of the properties of the error converters: reading a JSON   *)
(* text back (RFC 8259).  A string ends at the first quote that no        *)
(* backslash precedes, a backslash is followed by one of the escapes, and *)
(* a control character does not stand unescaped in a string.              *)
(***************************************************************************)
NoParse == [ok |-> FALSE, val |-> << >>, next |-> 0]

Unescape(c) ==
    IF c = Quote THEN << Quote >>
    ELSE IF c = Backslash THEN << Backslash >>
    ELSE IF c = Lit("n") THEN << Newline >>
    ELSE IF c = Lit("u003c") THEN << Less >>
    ELSE IF c = Lit("u0026") THEN << Amp >>
    ELSE << >>

RECURSIVE ParseString(_, _, _)
\* the string of b whose first character after the opening quote is b[i]
ParseString(b, i, acc) ==
    IF i > Len(b) THEN NoParse
    ELSE IF b[i] = Quote THEN [ok |-> TRUE, val |-> acc, next |-> i + 1]
    ELSE IF b[i] = Newline THEN NoParse
    ELSE IF b[i] = Backslash
         THEN IF i + 1 > Len(b) \/ Unescape(b[i + 1]) = << >> THEN NoParse
              ELSE ParseString(b, i + 2, acc \o Unescape(b[i + 1]))
    ELSE ParseString(b, i + 1, Append(acc, b[i]))

\* "key":"value" at b[i]
ParsePair(b, i) ==
    IF i > Len(b) \/ b[i] # Quote THEN NoParse
    ELSE LET k == ParseString(b, i + 1, << >>)
         IN  IF ~k.ok \/ k.next + 1 > Len(b) \/ b[k.next] # Colon \/ b[k.next + 1] # Quote
             THEN NoParse
             ELSE LET v == ParseString(b, k.next + 2, << >>)
                  IN  IF ~v.ok THEN NoParse
                      ELSE [ok |-> TRUE, val |-> << k.val, v.val >>, next |-> v.next]

RECURSIVE ParsePairs(_, _, _)
\* the pairs of an object of strings from b[i] to its closing brace, which
\* ends the text
ParsePairs(b, i, acc) ==
    LET p == ParsePair(b, i)
    IN  IF ~p.ok \/ p.next > Len(b) THEN NoParse
        ELSE IF b[p.next] = RBrace
             THEN IF p.next = Len(b)
                  THEN [ok |-> TRUE, val |-> Append(acc, p.val), next |-> p.next + 1]
                  ELSE NoParse
        ELSE IF b[p.next] = Comma THEN ParsePairs(b, p.next + 1, Append(acc, p.val))
        ELSE NoParse

\* the pairs of the JSON object of strings that b is
ParseObject(b) ==
    IF Len(b) < 2 \/ b[1] # LBrace THEN NoParse
    ELSE IF b[2] = RBrace /\ Len(b) = 2 THEN [ok |-> TRUE, val |-> << >>, next |-> 3]
    ELSE ParsePairs(b, 2, << >>)

\* the message the claim speaks of: e.Error(), or the empty string for nil
MessageOf(e) == IF e = NilErr THEN << >> ELSE ErrorText(e)

(***************************************************************************)
(* C27: error converters.  ErrorToMap(e) always holds the key "error",    *)
(* with the value e.Error() for a non-nil e and the empty string for nil; *)
(* ErrorToJSON(e) is the JSON object with the single key "error" that     *)
(* carries the same message, and ErrorToJSON(nil) is exactly              *)
(* {"error":""}.                                                           *)
(***************************************************************************)
C27_Converters ==
    /\ "ErrorToMap" \in conv.called =>
           /\ "error" \in DOMAIN conv.map
           /\ conv.map["error"] = MessageOf(conv.src)
    /\ "ErrorToJSON" \in conv.called =>
           /\ ParseObject(conv.json).ok
           /\ ParseObject(conv.json).val = << << << Lit("error") >>, MessageOf(conv.src) >> >>
           /\ conv.src = NilErr =>
                  conv.json = << Lit("{"), Lit("\""), Lit("error"), Lit("\""), Lit(":"),
                                 Lit("\""), Lit("\""), Lit("}") >>
    /\ conv.called = {"ErrorToMap", "ErrorToJSON"} =>
           ParseObject(conv.json).val[1][2] = conv.map["error"]

\* both converters were applied to an error Action returns whose message
\* holds a quote and a backslash
C27_Witness ==
    /\ conv.called = {"ErrorToMap", "ErrorToJSON"}
    /\ conv.src = BindError(<< "Address", "City" >>, ErrorString(<< Quote, Backslash >>))
    /\ conv.map["error"] = << Lit("bind failed on field '"), Path(<< "Address", "City" >>),
                              Lit("': "), Quote, Backslash >>
    /\ conv.json = << LBrace, Quote, Lit("error"), Quote, Colon, Quote,
                      Lit("bind failed on field '"), Path(<< "Address", "City" >>), Lit("': "),
                      Backslash, Quote, Backslash, Backslash, Quote, RBrace >>

\* both converters were applied to no error
C27_Nil ==
    /\ conv.called = {"ErrorToMap", "ErrorToJSON"}
    /\ conv.src = NilErr
    /\ conv.map = MapOf("error", << >>)
    /\ conv.json = EmptyErrorJSON


(***************************************************************************)
(* Vocabulary of the properties about cyclic values.                       *)
(***************************************************************************)
\* the objects that are their own descendants through participating members
OnCycle == { o \in 1..Len(Heap) : o \in Subtree(o) }

\* v reaches a cycle: the root or one of its descendants is on one
SelfReferential ==
    /\ target.root.to # 0
    /\ OnCycle \cap ({target.root.to} \cup Subtree(target.root.to)) # {}

\* the objects the walk entered more than once
Revisited ==
    { visits[n].rv.to : n \in { m \in 1..Len(visits) :
                                  \E l \in 1..(m - 1) : visits[l].rv.to = visits[m].rv.to } } \ {0}

(***************************************************************************)
(* C31: termination on cyclic input.  Action returns for every value      *)
(* graph; on a graph with a cycle of participating members the walk goes  *)
(* round the cycle, entering the same value again without noticing, until *)
(* a visit lies beyond the depth ceiling, and Action then returns the     *)
(* recursion-limit error; no Bind method has run.                          *)
(***************************************************************************)
C31_TerminatesOnCycles ==
    /\ <>Done
    /\ []((Done /\ SelfReferential /\ decoded = NilErr) =>
              /\ result # NilErr
              /\ Contains(ErrorText(result), RecursionMsg)
              /\ Revisited \cap OnCycle # {}
              /\ Last(visits).depth = maxRecursionDepth + 1
              /\ Len(visits) = maxRecursionDepth + 2
              /\ calls = << >>)

\* a DeepBinder whose Child is the DeepBinder itself
C31_Witness ==
    /\ Done
    /\ target = Chain(1, Ptr(1))
    /\ SelfReferential
    /\ Len(visits) = maxRecursionDepth + 2
    /\ Revisited = {1}
    /\ Contains(ErrorText(result), RecursionMsg)

\* two DeepBinder values, the Child of the second being the first
C31_Ancestor ==
    /\ Done
    /\ target = Chain(2, Ptr(1))
    /\ Revisited # {}
    /\ Contains(ErrorText(result), RecursionMsg)


(***************************************************************************)
(* Vocabulary of the properties about the stages of the multipart decoder. *)
(***************************************************************************)
MultipartCall == dcall.fn = "decodeMultipartFormRequest"

MultipartStages == << "ParseMultipartForm", "bindFiles", "form.Decode" >>

DecoderReturned == dcall.pc = "returned"

\* the error r.ParseMultipartForm gives for a malformed body
ParseFailure == ErrorString(<< Lit("ParseMultipartForm"), Lit(": malformed body") >>)

(***************************************************************************)
(* C32: multipart stage ordering.  The multipart decoder parses the form, *)
(* then runs the file populator, then runs the generic field decoder: the *)
(* stages run so far are always a prefix of that order.  If parsing fails *)
(* no later stage runs and the decoder returns the parse error as it is;  *)
(* if the file populator fails the field decoder does not run; the field  *)
(* decoder runs only after a populator that returned no error.             *)
(***************************************************************************)
C32_StageOrder ==
    MultipartCall =>
        /\ Len(dcall.stages) <= 3
        /\ dcall.stages = SubSeq(MultipartStages, 1, Len(dcall.stages))
        /\ Len(dcall.stages) >= 2 => form.parsed
        /\ Len(dcall.stages) = 3 => dcall.ferr = NilErr
        /\ (DecoderReturned /\ ~form.parsed) =>
               /\ dcall.stages = << "ParseMultipartForm" >>
               /\ dcall.err = ParseFailure
               /\ dcall.ferr = Pending
               /\ dcall.before = << >>
        /\ (DecoderReturned /\ dcall.ferr \notin {Pending, NilErr}) =>
               /\ dcall.stages = << "ParseMultipartForm", "bindFiles" >>
               /\ dcall.err = dcall.ferr
        /\ (DecoderReturned /\ dcall.ferr = NilErr) => dcall.stages = MultipartStages

\* the malformed body of the test: the parse fails, nothing else has run
C32_Witness ==
    /\ MultipartCall
    /\ DecoderReturned
    /\ dcall.stages = << "ParseMultipartForm" >>
    /\ dcall.err = ParseFailure
    /\ dest = PtrDest("Upload", TRUE)

\* the three stages in a row
C32_AllStages ==
    /\ MultipartCall
    /\ DecoderReturned
    /\ dcall.stages = MultipartStages
    /\ dcall.err = NilErr

\* the populator fails, the field decoder is left out
C32_PopulatorFails ==
    /\ MultipartCall
    /\ DecoderReturned
    /\ dcall.stages = << "ParseMultipartForm", "bindFiles" >>
    /\ dcall.err = NonPointerErr


(***************************************************************************)
(* Vocabulary of the properties about the descriptor.                      *)
(***************************************************************************)
\* the positions, counted from 1, of the members whose declared type has Bind in
\* its method set, read off the declarations of the types: a *T whose T declares
\* Bind on either receiver, a T that declares Bind on the value receiver, the
\* interface Binder
Declared(rt) ==
    CASE rt = "DeepBinder"      -> << 1 >>
      [] rt = "OuterBinder"     -> << 1 >>
      [] rt = "MiddleBinder"    -> << 1 >>
      [] rt = "InnerBinder"     -> << >>
      [] rt = "TestPayload"     -> << >>
      [] rt = "Branch"          -> << 1, 2 >>
      [] rt = "ValueBinder"     -> << >>
      [] rt = "Form"            -> << 2, 3, 4, 6, 7 >>
      [] rt = "EmbeddedPayload" -> << >>
      [] rt = "Envelope"        -> << 2, 3, 6 >>

\* the frames of binder that hold a descriptor, loaded or computed
Holding == { j \in 1..Len(stack) : stack[j].pc \notin {"enter", "scalar", "cache", "scan"} }

C33_Stored ==
    /\ \A rt \in DOMAIN binderCache :
           /\ binderCache[rt] = Declared(rt)
           /\ \A n \in 1..(Len(binderCache[rt]) - 1) : binderCache[rt][n] < binderCache[rt][n + 1]
           /\ \A n \in 1..Len(binderCache[rt]) :
                  binderCache[rt][n] \in 1..Len(TypeInfo[rt].fields)
    /\ \A j \in Holding : stack[j].binderFields = Declared(Heap[stack[j].rv.to].type)

C33_Kept ==
    \A rt \in DOMAIN binderCache :
        rt \in DOMAIN binderCache' /\ binderCache'[rt] = binderCache[rt]

(***************************************************************************)
(* C33: descriptor content.  The descriptor stored for a struct type is   *)
(* the list, in increasing declaration index, of the direct members whose *)
(* declared type implements Binder, and nothing else: whatever the values *)
(* of the members, the request and the calls made before, the entry of a  *)
(* type and the list a call works with are the list its declaration       *)
(* gives, and an entry does not change.                                    *)
(***************************************************************************)
C33_DescriptorContent == []C33_Stored /\ [][C33_Kept]_vars

\* the descriptor of Form stored while its pointer members are nil: the list
\* holds them all the same, and the by-value TestPayload is not in it
C33_Witness ==
    /\ target = FormTarget(NilPtr, NilPtr, Iface(0), NilPtr)
    /\ "Form" \in DOMAIN binderCache
    /\ binderCache["Form"] = << 2, 3, 4, 6, 7 >>
    /\ Holding # {}


(***************************************************************************)
(* Vocabulary of the properties about the frame of a registration.         *)
(***************************************************************************)
BuiltinKinds ==
    { "ContentTypeJSON", "ContentTypeXML", "ContentTypeForm", "ContentTypeMultipart" }

\* a step that is a step of RegisterDecoder made by p
StepOfRegisterDecoder(p) ==
    \/ At(p, "idle") /\ gor'[p].pc = "RegisterDecoder.write"
    \/ At(p, "RegisterDecoder.write") /\ gor'[p].pc = "RegisterDecoder.unlock"
    \/ At(p, "RegisterDecoder.unlock") /\ gor'[p].pc = "idle"

\* what a step of RegisterDecoder(k, f) leaves alone, and what any step does to
\* the registry
C34_Frame ==
    /\ \A p \in Goroutines :
           StepOfRegisterDecoder(p) =>
               /\ decodeFn' = decodeFn
               /\ MaxMultipartMemory' = MaxMultipartMemory
               /\ \A k \in (DOMAIN decoders \cup DOMAIN decoders') \ {gor'[p].ct, gor[p].ct} :
                      Lookup(decoders', k) = Lookup(decoders, k)
               /\ (At(p, "RegisterDecoder.write")) =>
                      Lookup(decoders', gor[p].ct) = [fn |-> gor[p].fn, ok |-> TRUE]
    /\ decoders' # decoders => \E p \in Goroutines : At(p, "RegisterDecoder.write")
    /\ DOMAIN decoders \subseteq DOMAIN decoders'
    /\ \A p \in Goroutines :
           (At(p, "GetDecoder.read") /\ gor[p].ct \in DOMAIN decoders) =>
               (gor'[p].pc = "GetDecoder.unlock" => gor'[p].ok)

\* the built-in kinds are registered, and a GetDecoder that found a decoder
\* returns while the entry is there
C34_Present ==
    /\ BuiltinKinds \subseteq DOMAIN decoders
    /\ \A p \in Goroutines :
           (At(p, "GetDecoder.unlock") /\ gor[p].ok) => gor[p].ct \in DOMAIN decoders

(***************************************************************************)
(* C34: registration frame and monotonicity.  RegisterDecoder(k, f)       *)
(* changes the registry entry of kind k only: the entries of the other    *)
(* kinds, the active decode function and the multipart threshold stay as  *)
(* they are.  No step removes an entry, so a kind GetDecoder once found   *)
(* is found by every later GetDecoder, and the four built-in kinds (JSON, *)
(* XML, Form, Multipart) have an entry in every state.                     *)
(***************************************************************************)
C34_RegistrationFrame == []C34_Present /\ [][C34_Frame]_vars

\* a kind without a built-in decoder registered while JSON was overridden: both
\* entries are there next to the untouched built-ins, and a GetDecoder has
\* found the new kind
C34_Witness ==
    /\ DOMAIN decoders = BuiltinKinds \cup {"ContentTypeUnknown"}
    /\ decoders["ContentTypeUnknown"] = "customDecoder"
    /\ decoders["ContentTypeJSON"] = "customDecoder"
    /\ decoders["ContentTypeXML"] = "decodeXMLRequest"
    /\ decoders["ContentTypeMultipart"] = "decodeMultipartFormRequest"
    /\ decodeFn = "DefaultDecoder"
    /\ MaxMultipartMemory = MaxMultipartMemoryInit
    /\ \E p \in Goroutines :
           At(p, "GetDecoder.unlock") /\ gor[p].ct = "ContentTypeUnknown" /\ gor[p].ok


(***************************************************************************)
(* Vocabulary of the properties about the functions called outside the    *)
(* locks.                                                                  *)
(***************************************************************************)
Holds(mu, p) == mu.w = p \/ p \in mu.r

\* where a goroutine is between taking and releasing decoderMu, and decodeMu
WithinDecoderMu ==
    { "RegisterDecoder.write", "RegisterDecoder.unlock", "GetDecoder.read", "GetDecoder.unlock",
      "DefaultDecoder.read", "DefaultDecoder.unlock",
      "host.RegisterDecoder.write", "host.RegisterDecoder.unlock",
      "host.GetDecoder.read", "host.GetDecoder.unlock" }

WithinDecodeMu ==
    { "SetDecode.write", "SetDecode.unlock", "getDecode.read", "getDecode.unlock",
      "host.SetDecode.write", "host.SetDecode.unlock" }

\* where a goroutine is about to call, or is running, the function it looked up
Invoking == { "Action.call", "DefaultDecoder.call", "host.run" }

\* the function goroutine p looked up: the entrypoint, and for DefaultDecoder the
\* decoder of the request's kind
LookedUp(p) == IF gor[p].entry # "DefaultDecoder" THEN gor[p].entry ELSE gor[p].fn

(***************************************************************************)
(* C35: decoders run outside the locks.  A goroutine that is about to     *)
(* call or is running the function it looked up holds neither decoderMu   *)
(* nor decodeMu: both are held only between a lock and its unlock inside  *)
(* RegisterDecoder, GetDecoder, DefaultDecoder's lookup, getDecode and    *)
(* SetDecode.  Hence a decoder that calls RegisterDecoder, GetDecoder or  *)
(* SetDecode is never stuck (a call under way can always take a step, or  *)
(* waits for a lock whose holder can), a decoder that runs on does not    *)
(* keep another goroutine from registering a decoder or setting the       *)
(* entrypoint, and the function run is the one looked up, also when the   *)
(* registry or the entrypoint has been changed since.                      *)
(***************************************************************************)
C35_OutsideLocks ==
    /\ \A p \in Goroutines :
           /\ Holds(decoderMu, p) => gor[p].pc \in WithinDecoderMu
           /\ Holds(decodeMu, p) => gor[p].pc \in WithinDecodeMu
           /\ gor[p].pc \in Invoking => (~Holds(decoderMu, p) /\ ~Holds(decodeMu, p))
    /\ \A p \in Goroutines :
           ~At(p, "idle") =>
               \/ ENABLED Finish(p)
               \/ \E q \in Goroutines \ {p} :
                      /\ Holds(decoderMu, q) \/ Holds(decodeMu, q)
                      /\ ENABLED Finish(q)
    /\ \A p \in Goroutines :
           (gor[p].pc \in Invoking /\ \A q \in Goroutines \ {p} : At(q, "idle")) =>
               \A q \in Goroutines \ {p, Server} :
                   /\ ENABLED RegisterDecoderLock(q, "ContentTypeJSON", "customDecoder")
                   /\ ENABLED SetDecodeLock(q, "customDecode")
    /\ \A p \in Goroutines :
           (gor[p].pc \in {"host.run", "Action.return"} /\ gor[p].invoked # "") =>
               gor[p].invoked = LookedUp(p)

\* customDecoder, looked up through DefaultDecoder, is in the middle of its own
\* RegisterDecoder, holding decoderMu exclusively, after another goroutine has
\* put the built-in JSON decoder back: the function run is still customDecoder
C35_Witness ==
    /\ At(Server, "host.RegisterDecoder.write")
    /\ gor[Server].entry = "DefaultDecoder"
    /\ gor[Server].invoked = "customDecoder"
    /\ decoders["ContentTypeJSON"] = "decodeJSONRequest"
    /\ decoderMu.w = Server

\* customDecode, the entrypoint looked up, runs on and is about to call
\* SetDecode while another goroutine is inside SetDecode holding decodeMu
C35_Waiting ==
    /\ At(Server, "host.run")
    /\ gor[Server].cb = "SetDecode"
    /\ gor[Server].invoked = "customDecode"
    /\ \E q \in Goroutines \ {Server} : At(q, "SetDecode.write")
    /\ ~ENABLED Finish(Server)


(***************************************************************************)
(* Vocabulary of the properties about the number of invocations.           *)
(***************************************************************************)
\* the values reached from v through non-nil descriptor members, v included
ReachedValues == {target.root.to} \cup Subtree(target.root.to)

\* the descriptor positions holding value o
HeldAt(o) ==
    { << q, n >> \in (1..Len(Heap)) \X (1..Len(Heap)) :
          /\ q \in ReachedValues
          /\ n \in 1..Len(ScanFields(Heap[q].type))
          /\ Heap[q].fields[ScanFields(Heap[q].type)[n]].to = o }

\* v is a tree of distinct values: nothing is reached by two paths
DistinctTree ==
    /\ target.root.to # 0
    /\ OnCycle \cap ReachedValues = {}
    /\ HeldAt(target.root.to) = {}
    /\ \A o \in ReachedValues \ {target.root.to} : Cardinality(HeldAt(o)) = 1

\* how many times the Bind of value o was invoked
Invocations(o) == Cardinality({ j \in 1..Len(calls) : calls[j].obj = o })

\* the values reached through the members binder dispatches on (a pointer or a
\* value held in place)
RECURSIVE ReachDispatched(_, _)
ReachDispatched(S, n) ==
    IF n = 0 THEN S ELSE ReachDispatched(S \cup UNION { Dispatched(o) : o \in S }, n - 1)

DispatchedValues == ReachDispatched({target.root.to}, Len(Heap))

(***************************************************************************)
(* C36: exactly-once invocation.  When Action has returned nil on a tree  *)
(* of distinct values, the Bind of the root and of every non-nil value    *)
(* reached through descriptor members has been invoked exactly once, and  *)
(* no Bind has been invoked on any other value.                            *)
(***************************************************************************)
C36_ExactlyOnce ==
    (Succeeded /\ DistinctTree) =>
        /\ \A o \in ReachedValues : Invocations(o) = 1
        /\ \A j \in 1..Len(calls) : calls[j].obj \in ReachedValues

\* the same over the values reached through pointers and values held in place
ExactlyOnceDispatched ==
    (Succeeded /\ DistinctTree) =>
        /\ \A o \in DispatchedValues : Invocations(o) = 1
        /\ \A j \in 1..Len(calls) : calls[j].obj \in DispatchedValues

\* the nested values of the test, each bound once
NestedBoundOnce ==
    /\ Succeeded
    /\ target = OuterTarget(Ptr(2), Ptr(3))
    /\ DistinctTree
    /\ Len(calls) = 3
    /\ \A o \in 1..3 : Invocations(o) = 1

====
